---- MODULE Spec2Model ----
(***************************************************************************)
(* A model of config_to_json.py: the Lexer (characters to tokens), the     *)
(* recursive-descent Parser with its constant table, and the two postfix   *)
(* evaluators parse_const_expression_body and parse_const_expression.      *)
(*                                                                         *)
(* A text is a sequence of one-character strings.  Positions are the       *)
(* 0-based indices of Lexer.pos.  The parser's Python call stack is the    *)
(* variable frames; one action is one step of one parser function.         *)
(***************************************************************************)
EXTENDS Integers, Sequences, FiniteSets, TLC

VARIABLES
    text,           \* Lexer.text: the whole input
    pos,            \* Lexer.pos: index of the first character not yet tokenized
    current_token,  \* Parser.current_token: [type, value]
    constants,      \* Parser.constants: dict name -> value, as a sequence of pairs
    config,         \* parse_config's local dict key -> value, as a sequence of pairs
    frames,         \* the active calls of parse_define / key-value / parse_array / evaluators
    pc,             \* where control is: start, config, value, ret, body, expr, returned, exit, raised, done
    retval,         \* the value a finished parse_value / evaluator hands to its caller
    err,            \* the exception that ended the run, NoErr while none
    result,         \* what convert_to_json returned (the Config), <<>> until it returns
    output          \* the file named by --output, as main has left it

vars ==
    <<text, pos, current_token, constants, config, frames, pc, retval, err, result, output>>

----------------------------------------------------------------------------
(* Characters (str.isspace, str.isdigit, str.isalpha, str.islower, str.isalnum
   over the ASCII characters the model's inputs are written in). *)

None == ""

LowerLetters ==
    {"a","b","c","d","e","f","g","h","i","j","k","l","m",
     "n","o","p","q","r","s","t","u","v","w","x","y","z"}

UpperLetters ==
    {"A","B","C","D","E","F","G","H","I","J","K","L","M",
     "N","O","P","Q","R","S","T","U","V","W","X","Y","Z"}

DecDigits == {"0","1","2","3","4","5","6","7","8","9"}

LowerHex == <<"0","1","2","3","4","5","6","7","8","9","a","b","c","d","e","f">>

UpperHex == <<"0","1","2","3","4","5","6","7","8","9","A","B","C","D","E","F">>

SpaceChars == {" ", "\t", "\n", "\r", "\f"}

HexDigits ==
    {"0","1","2","3","4","5","6","7","8","9","a","b","c","d","e","f","A","B","C","D","E","F"}

IsSpace(c) == c \in SpaceChars

IsDigit(c) == c \in DecDigits

IsAlpha(c) == c \in LowerLetters \/ c \in UpperLetters

IsLower(c) == c \in LowerLetters

IsAlnum(c) == IsAlpha(c) \/ IsDigit(c)

IsHexDigit(c) == c \in HexDigits

DigitValue(c) == (CHOOSE i \in 1..16 : LowerHex[i] = c \/ UpperHex[i] = c) - 1

----------------------------------------------------------------------------
(* Exceptions.  kind is the Python exception class, msg the fixed part of
   the message (the f-string's arguments are left out). *)

NoErr == [kind |-> "", msg |-> ""]

SyntaxErr(m) == [kind |-> "SyntaxError", msg |-> m]

TypeErr(m) == [kind |-> "TypeError", msg |-> m]

ValueErr(m) == [kind |-> "ValueError", msg |-> m]

----------------------------------------------------------------------------
(* Values: int, str and list, tagged. *)

Int_(n) == [t |-> "Int", v |-> n]

Str_(s) == [t |-> "Str", v |-> s]

Arr_(a) == [t |-> "Arr", v |-> a]

IsInt(x) == x.t = "Int"

IsStr(x) == x.t = "Str"

IsArr(x) == x.t = "Arr"

----------------------------------------------------------------------------
(* Python dicts keep insertion order; assignment to an existing key keeps
   the key's place and replaces the value. *)

HasKey(d, k) == \E i \in 1..Len(d) : d[i].key = k

DictGet(d, k) == d[CHOOSE i \in 1..Len(d) : d[i].key = k].val

\* d[k] = x that leaves an existing entry as it is (first write wins)
DictSetKeepFirst(d, k, x) ==
    IF HasKey(d, k) THEN d ELSE Append(d, [key |-> k, val |-> x])

\* `d = {k: x}` in place of `d[k] = x`: the other entries are lost
DictSetFresh(d, k, x) == <<[key |-> k, val |-> x]>>

DictSet(d, k, x) ==
    IF HasKey(d, k)
    THEN [i \in 1..Len(d) |-> IF d[i].key = k THEN [key |-> k, val |-> x] ELSE d[i]]
    ELSE Append(d, [key |-> k, val |-> x])

----------------------------------------------------------------------------
(* Lexer *)

CurrentChar(p) == IF p < Len(text) THEN text[p + 1] ELSE None

Peek(p) == IF p + 1 < Len(text) THEN text[p + 2] ELSE None

RECURSIVE skip_whitespace(_)
skip_whitespace(p) ==
    IF CurrentChar(p) # None /\ IsSpace(CurrentChar(p))
    THEN skip_whitespace(p + 1)
    ELSE p

RECURSIVE skip_single_comment(_)
skip_single_comment(p) ==
    IF CurrentChar(p) # None /\ CurrentChar(p) # "\n"
    THEN skip_single_comment(p + 1)
    ELSE IF CurrentChar(p) = "\n" THEN p + 1 ELSE p

\* The loop of skip_multi_comment from position p; -1 is the while's else
\* branch (the input ended first).
RECURSIVE multi_comment_loop(_)
multi_comment_loop(p) ==
    IF CurrentChar(p) = None THEN -1
    ELSE IF CurrentChar(p) = "#" /\ Peek(p) = ">" THEN p + 2
    ELSE multi_comment_loop(p + 1)

skip_multi_comment(p) == multi_comment_loop(p + 2)

\* The loops of read_name, read_number and read_string carry what `result`
\* holds so far.
RECURSIVE name_loop(_, _)
name_loop(p, acc) ==
    IF CurrentChar(p) # None /\ (IsAlnum(CurrentChar(p)) \/ CurrentChar(p) = "_")
    THEN name_loop(p + 1, Append(acc, CurrentChar(p)))
    ELSE [value |-> acc, pos |-> p, err |-> NoErr]

read_name(p) == name_loop(p, <<>>)

RECURSIVE hex_loop(_, _)
hex_loop(p, acc) ==
    IF CurrentChar(p) # None /\ IsHexDigit(CurrentChar(p))
    THEN hex_loop(p + 1, Append(acc, CurrentChar(p)))
    ELSE [value |-> acc, pos |-> p, err |-> NoErr]

RECURSIVE dec_loop(_, _)
dec_loop(p, acc) ==
    IF CurrentChar(p) # None /\ IsDigit(CurrentChar(p))
    THEN dec_loop(p + 1, Append(acc, CurrentChar(p)))
    ELSE [value |-> acc, pos |-> p, err |-> NoErr]

\* `self.peek() in 'xX'` with peek() = None raises TypeError.
read_number(p) ==
    IF CurrentChar(p) = "0" /\ Peek(p) = None
    THEN [value |-> <<>>, pos |-> p,
          err |-> TypeErr("'in <string>' requires string as left operand, not NoneType")]
    ELSE IF CurrentChar(p) = "0" /\ Peek(p) \in {"x", "X"}
    THEN hex_loop(p + 2, <<CurrentChar(p), Peek(p)>>)
    ELSE dec_loop(p, <<>>)

\* string_loop with a doubled quote kept as the two characters it is written with
RECURSIVE string_loop_keep_doubled(_, _)
string_loop_keep_doubled(p, acc) ==
    IF CurrentChar(p) = None
    THEN [value |-> acc, pos |-> p, err |-> SyntaxErr("Unclosed string")]
    ELSE IF CurrentChar(p) = "\"" /\ Peek(p) # "\""
    THEN [value |-> acc, pos |-> p + 1, err |-> NoErr]
    ELSE IF CurrentChar(p) = "\"" /\ Peek(p) = "\""
    THEN string_loop_keep_doubled(p + 2, acc \o <<"\"", "\"">>)
    ELSE string_loop_keep_doubled(p + 1, Append(acc, CurrentChar(p)))

RECURSIVE string_loop(_, _)
string_loop(p, acc) ==
    IF CurrentChar(p) = None
    THEN [value |-> acc, pos |-> p, err |-> SyntaxErr("Unclosed string")]
    ELSE IF CurrentChar(p) = "\"" /\ Peek(p) # "\""
    THEN [value |-> acc, pos |-> p + 1, err |-> NoErr]
    ELSE IF CurrentChar(p) = "\"" /\ Peek(p) = "\""
    THEN string_loop(p + 2, Append(acc, CurrentChar(p)))
    ELSE string_loop(p + 1, Append(acc, CurrentChar(p)))

read_string(p) == string_loop(p + 2, <<>>)

\* token TokenType.EOF that moves the position one further
TokenEofAdvances(type, value, p) ==
    [type |-> type, value |-> value, pos |-> IF type = "EOF" THEN p + 1 ELSE p, err |-> NoErr]

Token(type, value, p) == [type |-> type, value |-> value, pos |-> p, err |-> NoErr]

LexError(e, p) == [type |-> "ERROR", value |-> <<>>, pos |-> p, err |-> e]

RECURSIVE get_next_token(_)
get_next_token(p) ==
    LET c == CurrentChar(p) IN
    IF c = None THEN Token("EOF", <<>>, p)
    ELSE IF IsSpace(c) THEN get_next_token(skip_whitespace(p))
    ELSE IF c = "%" THEN get_next_token(skip_single_comment(p + 1))
    ELSE IF c = "<" /\ Peek(p) = "#"
    THEN LET q == skip_multi_comment(p)
         IN IF q < 0 THEN LexError(SyntaxErr("Unclosed multi-line comment"), p)
            ELSE get_next_token(q)
    ELSE IF c = "." /\ Peek(p) = "{" THEN Token("CONST_EXPR_START", <<".", "{">>, p + 2)
    ELSE IF c = "}" /\ Peek(p) = "." THEN Token("CONST_EXPR_END", <<"}", ".">>, p + 2)
    ELSE IF c = "@" /\ Peek(p) = "\""
    THEN LET r == read_string(p)
         IN IF r.err # NoErr THEN LexError(r.err, r.pos) ELSE Token("STRING", r.value, r.pos)
    ELSE IF c = "("
    THEN LET r == read_name(p + 1)
         IN IF r.value = <<"d","e","f","i","n","e">>
            THEN Token("DEFINE", r.value, r.pos)
            ELSE LexError(SyntaxErr("Unexpected token after '('"), r.pos)
    ELSE IF c = "[" THEN Token("ARRAY_START", <<c>>, p + 1)
    ELSE IF c = "]" THEN Token("ARRAY_END", <<c>>, p + 1)
    ELSE IF c = "," THEN Token("COMMA", <<c>>, p + 1)
    ELSE IF IsDigit(c)
    THEN LET r == read_number(p)
         IN IF r.err # NoErr THEN LexError(r.err, r.pos)
            ELSE IF Len(r.value) >= 2 /\ r.value[1] = "0" /\ r.value[2] \in {"x", "X"}
            THEN Token("HEX_NUMBER", r.value, r.pos)
            ELSE Token("NUMBER", r.value, r.pos)
    ELSE IF IsAlpha(c) /\ IsLower(c)
    THEN LET r == read_name(p)
         IN IF r.value = <<"a","b","s">> THEN Token("FUNCTION", r.value, r.pos)
            ELSE Token("NAME", r.value, r.pos)
    ELSE IF c \in {"+", "-", "*", "/"} THEN Token("OPERATOR", <<c>>, p + 1)
    ELSE LexError(SyntaxErr("Unexpected character"), p)

----------------------------------------------------------------------------
(* Python's operators on the evaluator's operands.  Each returns
   [val, err]; err # NoErr is the exception the operator raises. *)

Ok(x) == [val |-> x, err |-> NoErr]

Bad(e) == [val |-> Int_(0), err |-> e]

RECURSIVE Repeat(_, _)
Repeat(s, n) == IF n <= 0 THEN <<>> ELSE s \o Repeat(s, n - 1)

RECURSIVE DecimalDigits(_)
DecimalDigits(n) ==
    IF n < 10 THEN <<LowerHex[n + 1]>>
    ELSE DecimalDigits(n \div 10) \o <<LowerHex[(n % 10) + 1]>>

\* str(n) of an int
IntToStr(n) == IF n < 0 THEN <<"-">> \o DecimalDigits(-n) ELSE DecimalDigits(n)

Contains(s, c) == \E i \in 1..Len(s) : s[i] = c

RECURSIVE Flatten(_)
Flatten(ss) == IF ss = <<>> THEN <<>> ELSE Head(ss) \o Flatten(Tail(ss))

\* repr(s) of a str
StrRepr(s) ==
    LET q == IF Contains(s, "'") /\ ~Contains(s, "\"") THEN "\"" ELSE "'"
        esc(c) == IF c = "\\" THEN <<"\\", "\\">>
                  ELSE IF c = q THEN <<"\\", c>>
                  ELSE IF c = "\n" THEN <<"\\", "n">>
                  ELSE IF c = "\t" THEN <<"\\", "t">>
                  ELSE IF c = "\r" THEN <<"\\", "r">>
                  ELSE IF c = "\f" THEN <<"\\", "x", "0", "c">>
                  ELSE <<c>>
    IN <<q>> \o Flatten([i \in 1..Len(s) |-> esc(s[i])]) \o <<q>>

\* repr(x) of a value; a list's elements are joined by ", "
RECURSIVE PyRepr(_)
PyRepr(x) ==
    IF IsInt(x) THEN IntToStr(x.v)
    ELSE IF IsStr(x) THEN StrRepr(x.v)
    ELSE <<"[">>
         \o Flatten([i \in 1..Len(x.v) |->
                       IF i = 1 THEN PyRepr(x.v[i]) ELSE <<",", " ">> \o PyRepr(x.v[i])])
         \o <<"]">>

\* str(x) of a value
PyStr(x) == IF IsStr(x) THEN x.v ELSE PyRepr(x)

\* a + b
PyAdd(a, b) ==
    IF IsInt(a) /\ IsInt(b) THEN Ok(Int_(a.v + b.v))
    ELSE IF IsStr(a) /\ IsStr(b) THEN Ok(Str_(a.v \o b.v))
    ELSE IF IsArr(a) /\ IsArr(b) THEN Ok(Arr_(a.v \o b.v))
    ELSE Bad(TypeErr("unsupported operand type(s) for +"))

\* a - b
PySub(a, b) ==
    IF IsInt(a) /\ IsInt(b) THEN Ok(Int_(a.v - b.v))
    ELSE Bad(TypeErr("unsupported operand type(s) for -"))

\* a * b: a str or a list times an int repeats it
PyMul(a, b) ==
    IF IsInt(a) /\ IsInt(b) THEN Ok(Int_(a.v * b.v))
    ELSE IF IsInt(b) THEN Ok([t |-> a.t, v |-> Repeat(a.v, b.v)])
    ELSE IF IsInt(a) THEN Ok([t |-> b.t, v |-> Repeat(b.v, a.v)])
    ELSE Bad(TypeErr("can't multiply sequence by non-int"))

\* a / b rounded toward zero, as C's integer division
IntTruncDiv(a, b) ==
    LET q == (IF a < 0 THEN -a ELSE a) \div (IF b < 0 THEN -b ELSE b)
    IN IF (a < 0) = (b < 0) THEN q ELSE -q

\* a // b of two ints, b # 0, by magnitudes
RECURSIVE IntFloorDiv(_, _)
IntFloorDiv(a, b) ==
    IF b < 0 THEN IntFloorDiv(-a, -b)
    ELSE IF a >= 0 THEN a \div b
    ELSE -((b - 1 - a) \div b)

\* a // b
PyFloorDiv(a, b) ==
    IF IsInt(a) /\ IsInt(b) THEN Ok(Int_(IntFloorDiv(a.v, b.v)))
    ELSE Bad(TypeErr("unsupported operand type(s) for //"))

\* abs(x) that hands an int back unchanged
PyAbsIdentity(x) ==
    IF IsInt(x) THEN Ok(x) ELSE Bad(TypeErr("bad operand type for abs()"))

\* abs(x)
PyAbs(x) ==
    IF IsInt(x) THEN Ok(Int_(IF x.v < 0 THEN -x.v ELSE x.v))
    ELSE Bad(TypeErr("bad operand type for abs()"))

\* b == 0
IsZero(b) == IsInt(b) /\ b.v = 0

RECURSIVE DigitsValue(_, _)
DigitsValue(s, base) ==
    IF s = <<>> THEN 0
    ELSE DigitsValue(SubSeq(s, 1, Len(s) - 1), base) * base + DigitValue(s[Len(s)])

\* int(s): a non-empty run of decimal digits, anything else is ValueError
PyInt(s) ==
    IF s # <<>> /\ \A i \in 1..Len(s) : IsDigit(s[i])
    THEN Ok(Int_(DigitsValue(s, 10)))
    ELSE Bad(ValueErr("invalid literal for int() with base 10"))

\* int(s, 16) of a HEX_NUMBER lexeme: the 0x prefix, then at least one hex digit
PyIntHex(s) ==
    LET d == SubSeq(s, 3, Len(s))
    IN IF d # <<>> /\ \A i \in 1..Len(d) : IsHexDigit(d[i])
       THEN Ok(Int_(DigitsValue(d, 16)))
       ELSE Bad(ValueErr("invalid literal for int() with base 16"))

----------------------------------------------------------------------------
(* Parser *)

Tok(type, value) == [type |-> type, value |-> value]

\* eat that lets the end of the input stand for any expected token
eat_lenient_at_eof(tk, p, type) ==
    IF tk.type = type
    THEN LET n == get_next_token(p)
         IN IF n.err # NoErr
            THEN [tok |-> tk, pos |-> n.pos, err |-> n.err]
            ELSE [tok |-> Tok(n.type, n.value), pos |-> n.pos, err |-> NoErr]
    ELSE IF tk.type = "EOF" THEN [tok |-> tk, pos |-> p, err |-> NoErr]
    ELSE [tok |-> tk, pos |-> p, err |-> SyntaxErr("Expected token")]

\* Parser.eat on current token tk with the lexer at p: the matching token is
\* replaced by the next one (whose lexing may raise), any other is an error.
eat(tk, p, type) ==
    IF tk.type = type
    THEN LET n == get_next_token(p)
         IN IF n.err # NoErr
            THEN [tok |-> tk, pos |-> n.pos, err |-> n.err]
            ELSE [tok |-> Tok(n.type, n.value), pos |-> n.pos, err |-> NoErr]
    ELSE [tok |-> tk, pos |-> p, err |-> SyntaxErr("Expected token")]

Frame(fn, name, vals) == [fn |-> fn, name |-> name, vals |-> vals]

Top == frames[Len(frames)]

Pop == SubSeq(frames, 1, Len(frames) - 1)

Push(f) == Append(frames, f)

ReplaceTop(f) == [frames EXCEPT ![Len(frames)] = f]

NoValue == Int_(0)

\* The run goes on: the lexer and the current token move to e, control to npc.
Goto(e, npc) ==
    /\ current_token' = e.tok
    /\ pos' = e.pos
    /\ pc' = npc
    /\ UNCHANGED <<text, err, result, output>>

\* The file named by --output: Untouched until main opens it.
IOErr(m) == [kind |-> "IOError", msg |-> m]

Untouched == [state |-> "untouched", config |-> <<>>]

Truncated == [state |-> "truncated", config |-> <<>>]

Written(cfg) == [state |-> "written", config |-> cfg]

\* Raise that saves the pairs parsed so far before exiting
RaiseSavingPartial(e, p) ==
    /\ pc' = "exit"
    /\ err' = e
    /\ pos' = p
    /\ output' = Written(config)
    /\ UNCHANGED <<text, current_token, constants, config, frames, retval, result>>

\* An exception raised inside parse_config: convert_to_json's handlers print
\* it and call sys.exit(1).
Raise(e, p) ==
    /\ pc' = "exit"
    /\ err' = e
    /\ pos' = p
    /\ UNCHANGED <<text, current_token, constants, config, frames, retval, result, output>>

\* Parser.__init__ (called by convert_to_json before its try block): the first
\* token is read; a lexer exception here leaves convert_to_json uncaught.
ParserInit ==
    /\ pc = "start"
    /\ LET n == get_next_token(pos)
       IN IF n.err # NoErr
          THEN /\ pc' = "raised"
               /\ err' = n.err
               /\ pos' = n.pos
               /\ UNCHANGED <<text, current_token, constants, config, frames, retval, result, output>>
          ELSE /\ Goto([tok |-> Tok(n.type, n.value), pos |-> n.pos], "config")
               /\ UNCHANGED <<constants, config, frames, retval>>

\* One pass of parse_config's loop up to the call that parses the value, or
\* the return of the Config at EOF.
ParseConfig ==
    /\ pc = "config"
    /\ IF current_token.type = "EOF"
       THEN /\ pc' = "returned"
            /\ result' = config
            /\ UNCHANGED <<text, pos, current_token, constants, config, frames, retval, err, output>>
       ELSE IF current_token.type = "DEFINE"
       THEN /\ pc' = "define"
            /\ UNCHANGED <<text, pos, current_token, constants, config, frames, retval, err, result, output>>
       ELSE IF current_token.type = "NAME"
       THEN LET key == current_token.value
                e == eat(current_token, pos, "NAME")
            IN IF e.err # NoErr THEN Raise(e.err, e.pos)
               ELSE /\ Goto(e, IF e.tok.type = "CONST_EXPR_START" THEN "expr_enter" ELSE "value")
                    /\ frames' = IF e.tok.type = "CONST_EXPR_START"
                                 THEN Push(Frame("key", key, <<>>)) \o <<Frame("expr", <<>>, <<>>)>>
                                 ELSE Push(Frame("key", key, <<>>))
                    /\ UNCHANGED <<constants, config, retval>>
       ELSE Raise(SyntaxErr("Unexpected token"), pos)

\* parse_define up to its call of parse_value.
ParseDefine ==
    /\ pc = "define"
    /\ \E e1 \in {eat(current_token, pos, "DEFINE")} :
          IF e1.err # NoErr THEN Raise(e1.err, e1.pos)
          ELSE IF e1.tok.type # "NAME" THEN Raise(SyntaxErr("Expected name after define"), e1.pos)
          ELSE LET e2 == eat(e1.tok, e1.pos, "NAME")
               IN IF e2.err # NoErr THEN Raise(e2.err, e2.pos)
                  ELSE /\ Goto(e2, "value")
                       /\ frames' = Push(Frame("define", e1.tok.value, <<>>))
                       /\ UNCHANGED <<constants, config, retval>>

\* parse_define after parse_value has returned: the constant is stored.
ParseDefineStore ==
    /\ pc = "ret"
    /\ Top.fn = "define"
    /\ constants' = DictSet(constants, Top.name, retval)
    /\ frames' = Pop
    /\ pc' = "config"
    /\ UNCHANGED <<text, pos, current_token, config, retval, err, result, output>>

\* ParseConfigStore with keys and constants in one namespace: the pair is
\* also stored as a constant
ParseConfigStoreShared ==
    /\ pc = "ret"
    /\ Top.fn = "key"
    /\ config' = DictSet(config, Top.name, retval)
    /\ constants' = DictSet(constants, Top.name, retval)
    /\ frames' = Pop
    /\ pc' = "config"
    /\ UNCHANGED <<text, pos, current_token, retval, err, result, output>>

\* parse_config after the value of a key has been parsed: config[key] = value.
ParseConfigStore ==
    /\ pc = "ret"
    /\ Top.fn = "key"
    /\ config' = DictSet(config, Top.name, retval)
    /\ frames' = Pop
    /\ pc' = "config"
    /\ UNCHANGED <<text, pos, current_token, constants, retval, err, result, output>>

\* ResolveName with an unknown name resolved to the empty str
ResolveNameEmpty(name) ==
    IF HasKey(constants, name) THEN DictGet(constants, name) ELSE Str_(<<>>)

\* parse_value on a bare name that starts no region: the constant's value, or
\* the name itself as a str.
ResolveName(name) ==
    IF HasKey(constants, name) THEN DictGet(constants, name) ELSE Str_(name)

\* parse_value, up to its return or its call of parse_array or of an evaluator.
ParseValue ==
    /\ pc = "value"
    /\ LET token == current_token
           e == eat(token, pos, token.type)
       IN IF token.type = "NUMBER"
          THEN IF e.err # NoErr THEN Raise(e.err, e.pos)
               ELSE LET n == PyInt(token.value)
                    IN IF n.err # NoErr THEN Raise(n.err, e.pos)
                       ELSE /\ Goto(e, "ret")
                            /\ retval' = n.val
                            /\ UNCHANGED <<constants, config, frames>>
          ELSE IF token.type = "HEX_NUMBER"
          THEN IF e.err # NoErr THEN Raise(e.err, e.pos)
               ELSE LET n == PyIntHex(token.value)
                    IN IF n.err # NoErr THEN Raise(n.err, e.pos)
                       ELSE /\ Goto(e, "ret")
                            /\ retval' = n.val
                            /\ UNCHANGED <<constants, config, frames>>
          ELSE IF token.type = "STRING"
          THEN IF e.err # NoErr THEN Raise(e.err, e.pos)
               ELSE /\ Goto(e, "ret")
                    /\ retval' = Str_(token.value)
                    /\ UNCHANGED <<constants, config, frames>>
          ELSE IF token.type = "ARRAY_START"
          THEN /\ pc' = "array"
               /\ UNCHANGED <<text, pos, current_token, constants, config, frames, retval, err, result, output>>
          ELSE IF token.type = "NAME"
          THEN IF e.err # NoErr THEN Raise(e.err, e.pos)
               ELSE IF e.tok.type = "CONST_EXPR_START"
               THEN /\ Goto(e, "expr_enter")
                    /\ frames' = Push(Frame("expr", token.value, <<>>))
                    /\ UNCHANGED <<constants, config, retval>>
               ELSE /\ Goto(e, "ret")
                    /\ retval' = ResolveName(token.value)
                    /\ UNCHANGED <<constants, config, frames>>
          ELSE IF token.type = "CONST_EXPR_START"
          THEN IF e.err # NoErr THEN Raise(e.err, e.pos)
               ELSE /\ Goto(e, "body")
                    /\ frames' = Push(Frame("body", <<>>, <<>>))
                    /\ UNCHANGED <<constants, config, retval>>
          ELSE Raise(SyntaxErr("Unexpected token in value"), pos)

\* parse_array up to the parse of its first element, or the return of [].
ParseArray ==
    /\ pc = "array"
    /\ LET e1 == eat(current_token, pos, "ARRAY_START")
       IN IF e1.err # NoErr THEN Raise(e1.err, e1.pos)
          ELSE IF e1.tok.type # "ARRAY_END"
          THEN /\ Goto(e1, "value")
               /\ frames' = Push(Frame("array", <<>>, <<>>))
               /\ UNCHANGED <<constants, config, retval>>
          ELSE LET e2 == eat(e1.tok, e1.pos, "ARRAY_END")
               IN IF e2.err # NoErr THEN Raise(e2.err, e2.pos)
                  ELSE /\ Goto(e2, "ret")
                       /\ retval' = Arr_(<<>>)
                       /\ UNCHANGED <<constants, config, frames>>

\* values.insert(0, v)
ArrayPrepend(values, v) == <<v>> \o values

\* values.append(v)
ArrayAppend(values, v) == Append(values, v)

\* ParseArrayNext with elements that need no comma: after an element, a
\* token that is neither `,` nor `]` starts the next element
ParseArrayNextJuxtaposed ==
    /\ pc = "ret"
    /\ Top.fn = "array"
    /\ LET values == ArrayAppend(Top.vals, retval)
       IN IF current_token.type = "COMMA"
          THEN LET e == eat(current_token, pos, "COMMA")
               IN IF e.err # NoErr THEN Raise(e.err, e.pos)
                  ELSE /\ Goto(e, "value")
                       /\ frames' = ReplaceTop(Frame("array", <<>>, values))
                       /\ UNCHANGED <<constants, config, retval>>
          ELSE IF current_token.type = "ARRAY_END"
          THEN LET e == eat(current_token, pos, "ARRAY_END")
               IN IF e.err # NoErr THEN Raise(e.err, e.pos)
                  ELSE /\ Goto(e, "ret")
                       /\ frames' = Pop
                       /\ retval' = Arr_(values)
                       /\ UNCHANGED <<constants, config>>
          ELSE /\ pc' = "value"
               /\ frames' = ReplaceTop(Frame("array", <<>>, values))
               /\ UNCHANGED <<text, pos, current_token, constants, config, retval, err,
                              result, output>>

\* ParseArrayNext with the comma left as the current token
ParseArrayNextKeepsComma ==
    /\ pc = "ret"
    /\ Top.fn = "array"
    /\ LET values == ArrayAppend(Top.vals, retval)
       IN IF current_token.type = "COMMA"
          THEN /\ pc' = "value"
               /\ frames' = ReplaceTop(Frame("array", <<>>, values))
               /\ UNCHANGED <<text, pos, current_token, constants, config, retval, err,
                              result, output>>
          ELSE LET e == eat(current_token, pos, "ARRAY_END")
               IN IF e.err # NoErr THEN Raise(e.err, e.pos)
                  ELSE /\ Goto(e, "ret")
                       /\ frames' = Pop
                       /\ retval' = Arr_(values)
                       /\ UNCHANGED <<constants, config>>

\* parse_array after an element has been parsed: it is appended; a comma
\* leads to the next element, anything else must be the closing bracket.
ParseArrayNext ==
    /\ pc = "ret"
    /\ Top.fn = "array"
    /\ LET values == ArrayAppend(Top.vals, retval)
       IN IF current_token.type = "COMMA"
          THEN LET e == eat(current_token, pos, "COMMA")
               IN IF e.err # NoErr THEN Raise(e.err, e.pos)
                  ELSE /\ Goto(e, "value")
                       /\ frames' = ReplaceTop(Frame("array", <<>>, values))
                       /\ UNCHANGED <<constants, config, retval>>
          ELSE LET e == eat(current_token, pos, "ARRAY_END")
               IN IF e.err # NoErr THEN Raise(e.err, e.pos)
                  ELSE /\ Goto(e, "ret")
                       /\ frames' = Pop
                       /\ retval' = Arr_(values)
                       /\ UNCHANGED <<constants, config>>

----------------------------------------------------------------------------
(* The evaluators.  A step result is [stack, err]. *)

Stk(st) == [stack |-> st, err |-> NoErr]

StkErr(e) == [stack |-> <<>>, err |-> e]

PushRes(st, r) == IF r.err # NoErr THEN StkErr(r.err) ELSE Stk(Append(st, r.val))

Drop(st, n) == SubSeq(st, 1, Len(st) - n)

\* parse_const_expression_body: `a op b`
BodyApplyOperator(op, a, b) ==
    IF op = "+"
    THEN IF IsStr(a) \/ IsStr(b) THEN Ok(Str_(PyStr(a) \o PyStr(b))) ELSE PyAdd(a, b)
    ELSE IF op = "-" THEN PySub(a, b)
    ELSE IF op = "*" THEN PyMul(a, b)
    ELSE IF op = "/"
    THEN IF IsZero(b) THEN Bad(SyntaxErr("Division by zero")) ELSE PyFloorDiv(a, b)
    ELSE Bad(SyntaxErr("Unknown operator"))

\* parse_const_expression_body: the function branch
BodyApplyFunction(func, st) ==
    IF func = <<"a","b","s">>
    THEN IF Len(st) < 1 THEN StkErr(SyntaxErr("Not enough arguments for function"))
         ELSE LET arg == st[Len(st)]
              IN IF IsInt(arg) THEN PushRes(Drop(st, 1), PyAbs(arg))
                 ELSE StkErr(SyntaxErr("Function abs expects numeric argument"))
    ELSE StkErr(SyntaxErr("Unknown function"))

\* parse_const_expression_body: one pass of the loop on token, after its eat
BodyToken(token, st) ==
    IF token.type = "NUMBER" THEN PushRes(st, PyInt(token.value))
    ELSE IF token.type = "HEX_NUMBER" THEN PushRes(st, PyIntHex(token.value))
    ELSE IF token.type = "NAME"
    THEN IF HasKey(constants, token.value)
         THEN Stk(Append(st, DictGet(constants, token.value)))
         ELSE Stk(Append(st, Str_(token.value)))
    ELSE IF token.type = "OPERATOR"
    THEN IF Len(st) < 2 THEN StkErr(SyntaxErr("Not enough operands for operator"))
         ELSE PushRes(Drop(st, 2), BodyApplyOperator(token.value[1], st[Len(st) - 1], st[Len(st)]))
    ELSE BodyApplyFunction(token.value, st)

\* ExprApplyOperator without the `if b == 0` test: Python's own exception
ExprApplyOperatorUnchecked(op, a, b) ==
    IF op = "+" THEN PyAdd(a, b)
    ELSE IF op = "-" THEN PySub(a, b)
    ELSE IF op = "*" THEN PyMul(a, b)
    ELSE IF op = "/"
    THEN IF IsZero(b)
         THEN Bad([kind |-> "ZeroDivisionError", msg |-> "integer division or modulo by zero"])
         ELSE PyFloorDiv(a, b)
    ELSE Bad(SyntaxErr("Unknown operator"))

\* parse_const_expression: `a op b`
ExprApplyOperator(op, a, b) ==
    IF op = "+" THEN PyAdd(a, b)
    ELSE IF op = "-" THEN PySub(a, b)
    ELSE IF op = "*" THEN PyMul(a, b)
    ELSE IF op = "/"
    THEN IF IsZero(b) THEN Bad(SyntaxErr("Division by zero")) ELSE PyFloorDiv(a, b)
    ELSE Bad(SyntaxErr("Unknown operator"))

\* parse_const_expression: the function branch
ExprApplyFunction(func, st) ==
    IF func = <<"a","b","s">>
    THEN IF Len(st) < 1 THEN StkErr(SyntaxErr("Not enough arguments for function"))
         ELSE PushRes(Drop(st, 1), PyAbs(st[Len(st)]))
    ELSE StkErr(SyntaxErr("Unknown function"))

\* ExprToken with the operands taken in the order of their pops: `b op a`
ExprTokenPopOrder(token, st) ==
    IF token.type = "NUMBER" THEN PushRes(st, PyInt(token.value))
    ELSE IF token.type = "HEX_NUMBER" THEN PushRes(st, PyIntHex(token.value))
    ELSE IF token.type = "NAME"
    THEN IF HasKey(constants, token.value)
         THEN Stk(Append(st, DictGet(constants, token.value)))
         ELSE LET n == PyInt(token.value)
              IN IF n.err # NoErr THEN StkErr(SyntaxErr("Unknown constant"))
                 ELSE Stk(Append(st, n.val))
    ELSE IF token.type = "OPERATOR"
    THEN IF Len(st) < 2 THEN StkErr(SyntaxErr("Not enough operands for operator"))
         ELSE PushRes(Drop(st, 2), ExprApplyOperator(token.value[1], st[Len(st)], st[Len(st) - 1]))
    ELSE ExprApplyFunction(token.value, st)

\* parse_const_expression: one pass of the loop on token, after its eat
ExprToken(token, st) ==
    IF token.type = "NUMBER" THEN PushRes(st, PyInt(token.value))
    ELSE IF token.type = "HEX_NUMBER" THEN PushRes(st, PyIntHex(token.value))
    ELSE IF token.type = "NAME"
    THEN IF HasKey(constants, token.value)
         THEN Stk(Append(st, DictGet(constants, token.value)))
         ELSE LET n == PyInt(token.value)
              IN IF n.err # NoErr THEN StkErr(SyntaxErr("Unknown constant"))
                 ELSE Stk(Append(st, n.val))
    ELSE IF token.type = "OPERATOR"
    THEN IF Len(st) < 2 THEN StkErr(SyntaxErr("Not enough operands for operator"))
         ELSE PushRes(Drop(st, 2), ExprApplyOperator(token.value[1], st[Len(st) - 1], st[Len(st)]))
    ELSE ExprApplyFunction(token.value, st)

EvalTokenTypes == {"NUMBER", "HEX_NUMBER", "NAME", "OPERATOR", "FUNCTION"}

\* ParseConstExpressionBody with `return stack[-1]` for any non-empty stack
ParseConstExpressionBodyTopOfStack ==
    /\ pc = "body"
    /\ LET token == current_token
           stack == Top.vals
       IN IF token.type \in {"CONST_EXPR_END", "EOF"}
          THEN IF Len(stack) < 1 THEN Raise(SyntaxErr("Invalid constant expression"), pos)
               ELSE LET e == eat(token, pos, "CONST_EXPR_END")
                    IN IF e.err # NoErr THEN Raise(e.err, e.pos)
                       ELSE /\ Goto(e, "ret")
                            /\ frames' = Pop
                            /\ retval' = stack[Len(stack)]
                            /\ UNCHANGED <<constants, config>>
          ELSE IF token.type \in EvalTokenTypes
          THEN LET e == eat(token, pos, token.type)
                   r == BodyToken(token, stack)
               IN IF e.err # NoErr THEN Raise(e.err, e.pos)
                  ELSE IF r.err # NoErr THEN Raise(r.err, e.pos)
                  ELSE /\ Goto(e, "body")
                       /\ frames' = ReplaceTop(Frame("body", <<>>, r.stack))
                       /\ UNCHANGED <<constants, config, retval>>
          ELSE Raise(SyntaxErr("Unexpected token in constant expression"), pos)

\* parse_value's call of parse_const_expression_body: one pass of the body's
\* loop, or its end (the stack check, then parse_value's eat of `}.`).
ParseConstExpressionBody ==
    /\ pc = "body"
    /\ LET token == current_token
           stack == Top.vals
       IN IF token.type \in {"CONST_EXPR_END", "EOF"}
          THEN IF Len(stack) # 1 THEN Raise(SyntaxErr("Invalid constant expression"), pos)
               ELSE LET e == eat(token, pos, "CONST_EXPR_END")
                    IN IF e.err # NoErr THEN Raise(e.err, e.pos)
                       ELSE /\ Goto(e, "ret")
                            /\ frames' = Pop
                            /\ retval' = stack[1]
                            /\ UNCHANGED <<constants, config>>
          ELSE IF token.type \in EvalTokenTypes
          THEN LET e == eat(token, pos, token.type)
                   r == BodyToken(token, stack)
               IN IF e.err # NoErr THEN Raise(e.err, e.pos)
                  ELSE IF r.err # NoErr THEN Raise(r.err, e.pos)
                  ELSE /\ Goto(e, "body")
                       /\ frames' = ReplaceTop(Frame("body", <<>>, r.stack))
                       /\ UNCHANGED <<constants, config, retval>>
          ELSE Raise(SyntaxErr("Unexpected token in constant expression"), pos)

\* ParseConstExpressionEnter with the bare-word fallback for a seed that is
\* no constant and no number: the name itself is pushed
ParseConstExpressionEnterFallback ==
    /\ pc = "expr_enter"
    /\ LET first_arg == Top.name
           e == eat(current_token, pos, "CONST_EXPR_START")
       IN IF e.err # NoErr THEN Raise(e.err, e.pos)
          ELSE IF first_arg = <<>>
          THEN /\ Goto(e, "expr")
               /\ UNCHANGED <<constants, config, retval, frames>>
          ELSE IF HasKey(constants, first_arg)
          THEN /\ Goto(e, "expr")
               /\ frames' = ReplaceTop(Frame("expr", first_arg, <<DictGet(constants, first_arg)>>))
               /\ UNCHANGED <<constants, config, retval>>
          ELSE LET n == PyInt(first_arg)
               IN /\ Goto(e, "expr")
                  /\ frames' = ReplaceTop(Frame("expr", first_arg,
                                   <<IF n.err # NoErr THEN Str_(first_arg) ELSE n.val>>))
                  /\ UNCHANGED <<constants, config, retval>>

\* parse_const_expression before its loop: `.{` is eaten and the stack starts
\* empty or with the seed first_arg (Top.name; <<>> is None).
ParseConstExpressionEnter ==
    /\ pc = "expr_enter"
    /\ LET first_arg == Top.name
           e == eat(current_token, pos, "CONST_EXPR_START")
       IN IF e.err # NoErr THEN Raise(e.err, e.pos)
          ELSE IF first_arg = <<>>
          THEN /\ Goto(e, "expr")
               /\ UNCHANGED <<constants, config, retval, frames>>
          ELSE IF HasKey(constants, first_arg)
          THEN /\ Goto(e, "expr")
               /\ frames' = ReplaceTop(Frame("expr", first_arg, <<DictGet(constants, first_arg)>>))
               /\ UNCHANGED <<constants, config, retval>>
          ELSE LET n == PyInt(first_arg)
               IN IF n.err # NoErr
                  THEN Raise(SyntaxErr("Invalid constant expression argument"), e.pos)
                  ELSE /\ Goto(e, "expr")
                       /\ frames' = ReplaceTop(Frame("expr", first_arg, <<n.val>>))
                       /\ UNCHANGED <<constants, config, retval>>

\* parse_const_expression: one pass of its loop, or its end (the eat of `}.`,
\* then the stack check).
ParseConstExpression ==
    /\ pc = "expr"
    /\ LET token == current_token
           stack == Top.vals
       IN IF token.type = "CONST_EXPR_END"
          THEN LET e == eat(token, pos, "CONST_EXPR_END")
               IN IF e.err # NoErr THEN Raise(e.err, e.pos)
                  ELSE IF Len(stack) # 1 THEN Raise(SyntaxErr("Invalid constant expression"), e.pos)
                  ELSE /\ Goto(e, "ret")
                       /\ frames' = Pop
                       /\ retval' = stack[1]
                       /\ UNCHANGED <<constants, config>>
          ELSE IF token.type \in EvalTokenTypes
          THEN LET e == eat(token, pos, token.type)
                   r == ExprToken(token, stack)
               IN IF e.err # NoErr THEN Raise(e.err, e.pos)
                  ELSE IF r.err # NoErr THEN Raise(r.err, e.pos)
                  ELSE /\ Goto(e, "expr")
                       /\ frames' = ReplaceTop(Frame("expr", Top.name, r.stack))
                       /\ UNCHANGED <<constants, config, retval>>
          ELSE Raise(SyntaxErr("Unexpected token in constant expression"), pos)

----------------------------------------------------------------------------
(* main: after convert_to_json has returned, the Config is written to the
   file named by --output. *)

\* open(args.output, 'w') and json.dump(config, f) succeed.
MainWrite ==
    /\ pc = "returned"
    /\ pc' = "done"
    /\ output' = Written(result)
    /\ UNCHANGED <<text, pos, current_token, constants, config, frames, retval, err, result>>

\* open or json.dump raises IOError: the file is as it was (open failed) or
\* left truncated (the write failed); main prints the error and exits 1.
MainWriteFails ==
    /\ pc = "returned"
    /\ pc' = "io_exit"
    /\ err' = IOErr("write failed")
    /\ output' \in {output, Truncated}
    /\ UNCHANGED <<text, pos, current_token, constants, config, frames, retval, result>>

\* The status the process ends with: sys.exit(1) in convert_to_json and in
\* main, 1 for an exception nobody catches, 0 at the end of main; -1 while
\* it runs.
ExitStatus ==
    IF pc \in {"exit", "io_exit", "raised"} THEN 1
    ELSE IF pc = "done" THEN 0
    ELSE -1

Next ==
    \/ ParserInit
    \/ ParseConfig
    \/ ParseDefine
    \/ ParseDefineStore
    \/ ParseConfigStore
    \/ ParseValue
    \/ ParseArray
    \/ ParseArrayNext
    \/ ParseConstExpressionBody
    \/ ParseConstExpressionEnter
    \/ ParseConstExpression
    \/ MainWrite
    \/ MainWriteFails

\* The state after Lexer(input_text): nothing read, nothing parsed.
InitOn(inputs) ==
    /\ text \in inputs
    /\ pos = 0
    /\ current_token = Tok("NONE", <<>>)
    /\ constants = <<>>
    /\ config = <<>>
    /\ frames = <<>>
    /\ pc = "start"
    /\ retval = NoValue
    /\ err = NoErr
    /\ result = <<>>
    /\ output = Untouched

----------------------------------------------------------------------------
(* Inputs.  Each family is a set of texts; the bounds say how far it goes. *)

MaxDigits == 3

MaxElems == 3

MaxBody == 3

MaxOperand == 7

MaxExprLen == 3

MaxNameLen == 3

MaxOpen == 2

SeqsUpTo(S, n) == UNION {[1..m -> S] : m \in 0..n}

SeqsFromTo(S, lo, n) == UNION {[1..m -> S] : m \in lo..n}

\* the words of ws with one space between two of them
RECURSIVE Words(_)
Words(ws) ==
    IF Len(ws) = 0 THEN <<>>
    ELSE IF Len(ws) = 1 THEN ws[1]
    ELSE ws[1] \o <<" ">> \o Words(Tail(ws))

Final == {"returned", "exit", "raised"}

\* (define a 2\nk [1, a .{3 +}., .{a 1 -}.]\nr .{a 2 *}.\ne []
BaseText ==
    <<"(","d","e","f","i","n","e"," ","a"," ","2","\n","k"," ","[","1",","," ","a"," ",".",
      "{","3"," ","+","}",".",","," ",".","{","a"," ","1"," ","-","}",".","]","\n","r"," ",
      ".","{","a"," ","2"," ","*","}",".","\n","e"," ","[","]">>

\* (define base_port 8000)\nport .{base_port 80 +}.
C1TextConst ==
    <<"(","d","e","f","i","n","e"," ","b","a","s","e","_","p","o","r","t"," ","8","0","0","0",
      ")","\n","p","o","r","t"," ",".","{","b","a","s","e","_","p","o","r","t"," ","8","0",
      " ","+","}",".">>

\* (define base 10)\n(define offset .{base 5 +}.)\nresult .{offset base *}.
C1TextNested ==
    <<"(","d","e","f","i","n","e"," ","b","a","s","e"," ","1","0",")","\n","(","d","e","f",
      "i","n","e"," ","o","f","f","s","e","t"," ",".","{","b","a","s","e"," ","5"," ","+","}",
      ".",")","\n","r","e","s","u","l","t"," ",".","{","o","f","f","s","e","t"," ","b","a",
      "s","e"," ","*","}",".">>

\* (define base_port 8000\nport .{base_port 80 +}.
C1TextConstOpen ==
    <<"(","d","e","f","i","n","e"," ","b","a","s","e","_","p","o","r","t"," ","8","0","0","0",
      "\n","p","o","r","t"," ",".","{","b","a","s","e","_","p","o","r","t"," ","8","0"," ",
      "+","}",".">>

\* (define base 10\n(define offset .{base 5 +}.\nresult .{offset base *}.
C1TextNestedOpen ==
    <<"(","d","e","f","i","n","e"," ","b","a","s","e"," ","1","0","\n","(","d","e","f","i",
      "n","e"," ","o","f","f","s","e","t"," ",".","{","b","a","s","e"," ","5"," ","+","}",".",
      "\n","r","e","s","u","l","t"," ",".","{","o","f","f","s","e","t"," ","b","a","s","e",
      " ","*","}",".">>

\* quoted @\"He said \"Hello, World!\"\"
C5TextQuoted ==
    <<"q","u","o","t","e","d"," ","@","\"","H","e"," ","s","a","i","d"," ","\"","H","e","l",
      "l","o",","," ","W","o","r","l","d","!","\"","\"">>

\* double_quotes @\"This is a \"test\" string\"
C5TextDouble ==
    <<"d","o","u","b","l","e","_","q","u","o","t","e","s"," ","@","\"","T","h","i","s"," ",
      "i","s"," ","a"," ","\"","t","e","s","t","\""," ","s","t","r","i","n","g","\"">>

\* quoted @\"He said \"\"Hello, World!\"\"\"
C5TextQuotedDoubled ==
    <<"q","u","o","t","e","d"," ","@","\"","H","e"," ","s","a","i","d"," ","\"","\"","H","e",
      "l","l","o",","," ","W","o","r","l","d","!","\"","\"","\"">>

\* double_quotes @\"This is a \"\"test\"\" string\"
C5TextDoubleDoubled ==
    <<"d","o","u","b","l","e","_","q","u","o","t","e","s"," ","@","\"","T","h","i","s"," ",
      "i","s"," ","a"," ","\"","\"","t","e","s","t","\"","\""," ","s","t","r","i","n","g",
      "\"">>

\* (define s @\"x\"\n(define m .{0 7 -}.\n
EvalPrefix ==
    <<"(","d","e","f","i","n","e"," ","s"," ","@","\"","x","\"","\n","(","d","e","f","i","n",
      "e"," ","m"," ",".","{","0"," ","7"," ","-","}",".","\n">>

\* k .{5 10 - abs}.
C9TextAbs ==
    <<"k"," ",".","{","5"," ","1","0"," ","-"," ","a","b","s","}",".">>

BaseInputs == {BaseText}

----------------------------------------------------------------------------
(* Number literals: every digit string of 1..MaxDigits digits, decimal and
   hexadecimal, as a key's value at the end of the input, before a newline,
   as an array element and inside both evaluators. *)

DecLiterals == SeqsFromTo({"0", "1", "9"}, 1, MaxDigits)

HexLiterals ==
    {p \o d : p \in {<<"0", "x">>, <<"0", "X">>},
              d \in SeqsFromTo({"0", "a", "F"}, 1, MaxDigits)}

Literals == DecLiterals \cup HexLiterals

LitContexts == {"end", "line", "array", "expr", "body"}

LitText(c, lit) ==
    IF c = "end" THEN <<"k", " ">> \o lit
    ELSE IF c = "line" THEN <<"k", " ">> \o lit \o <<"\n">>
    ELSE IF c = "array" THEN <<"k", " ", "[">> \o lit \o <<"]">>
    ELSE IF c = "expr" THEN <<"k", " ", ".", "{">> \o lit \o <<"}", ".">>
    ELSE <<"k", " ", "[", ".", "{">> \o lit \o <<"}", ".", "]">>

LitInputs == {LitText(c, lit) : c \in LitContexts, lit \in Literals}

----------------------------------------------------------------------------
(* Arrays: up to MaxElems items, each an atom or a nested array of atoms.
   An item is [src, val]: how it is written and the value it stands for. *)

Atoms ==
    { [src |-> <<"1">>, val |-> Int_(1)],
      [src |-> <<"@", "\"", "t", "w", "o", "\"">>, val |-> Str_(<<"t", "w", "o">>)],
      [src |-> <<"0", "x", "0", "3">>, val |-> Int_(3)] }

RECURSIVE JoinSrc(_)
JoinSrc(items) ==
    IF Len(items) = 0 THEN <<>>
    ELSE IF Len(items) = 1 THEN items[1].src
    ELSE items[1].src \o <<",", " ">> \o JoinSrc(Tail(items))

ArrayOf(items) ==
    [src |-> <<"[">> \o JoinSrc(items) \o <<"]">>,
     val |-> Arr_([i \in 1..Len(items) |-> items[i].val])]

AtomList(srcs) == [i \in 1..Len(srcs) |-> CHOOSE a \in Atoms : a.src = srcs[i]]

NestedArrays ==
    { ArrayOf(<<>>),
      ArrayOf(AtomList(<< <<"1">> >>)),
      ArrayOf(AtomList(<< <<"@", "\"", "t", "w", "o", "\"">>, <<"0", "x", "0", "3">> >>)) }

Items == Atoms \cup NestedArrays

ArrayDescs == {ArrayOf(items) : items \in SeqsUpTo(Items, MaxElems)}

ArrText(d) == <<"k", " ">> \o d.src

ArrInputs == {ArrText(d) : d \in ArrayDescs}

----------------------------------------------------------------------------
(* String literals: a body of up to MaxBody units, a unit being a plain
   character or a doubled quote, closed and followed by the end of the
   input, a newline or another pair. *)

Units ==
    { [src |-> <<"a">>, out |-> <<"a">>],
      [src |-> <<" ">>, out |-> <<" ">>],
      [src |-> <<"%">>, out |-> <<"%">>],
      [src |-> <<"\"", "\"">>, out |-> <<"\"">>] }

Bodies == SeqsUpTo(Units, MaxBody)

BodySrc(b) == Flatten([i \in 1..Len(b) |-> b[i].src])

BodyOut(b) == Flatten([i \in 1..Len(b) |-> b[i].out])

StrTails == {<<>>, <<"\n">>, <<" ", "r", " ", "1">>}

StrText(b, tail) == <<"k", " ", "@", "\"">> \o BodySrc(b) \o <<"\"">> \o tail

StrInputs == {StrText(b, tail) : b \in Bodies, tail \in StrTails}

----------------------------------------------------------------------------
(* Bare names as values: names of up to MaxNameLen characters that no input
   of the family defines, as a key's value, an array element and a define's
   value. *)

Names ==
    {<<h>> \o t : h \in {"f", "z"}, t \in SeqsUpTo({"o", "_", "9", "Z"}, MaxNameLen - 1)}

NameContexts == {"key", "line", "array", "define"}

NameText(c, n) ==
    IF c = "key" THEN <<"k", " ">> \o n
    ELSE IF c = "line" THEN <<"k", " ">> \o n \o <<"\n", "r", " ", "1">>
    ELSE IF c = "array" THEN <<"k", " ", "[">> \o n \o <<",", " ", "1", "]">>
    ELSE <<"(", "d", "e", "f", "i", "n", "e", " ", "c", " ">> \o n \o <<"\n", "k", " ", "c">>

NameInputs == {NameText(c, n) : c \in NameContexts, n \in Names}

----------------------------------------------------------------------------
(* Constant expressions.  After EvalPrefix, s is the Str "x" and m is -7.
   EvalInputs: every sequence of up to MaxExprLen lexemes, as the region of
   a top-level key, of an array element, of a define and after a seed.
   DivInputs: `a b /` for all a, b in -MaxOperand..MaxOperand, a negative
   operand n written `0 n -`. *)

ExprLexemes ==
    {<<"0">>, <<"2">>, <<"m">>, <<"s">>, <<"-">>, <<"/">>, <<"a", "b", "s">>}

ExprSeqs == SeqsUpTo(ExprLexemes, MaxExprLen)

EvalContexts == {"key", "array", "define", "seed"}

Region(ws) == <<".", "{">> \o Words(ws) \o <<"}", ".">>

EvalText(c, ws) ==
    EvalPrefix \o
    (IF c = "key" THEN <<"k", " ">> \o Region(ws)
     ELSE IF c = "array" THEN <<"k", " ", "[">> \o Region(ws) \o <<"]">>
     ELSE IF c = "define" THEN <<"(", "d", "e", "f", "i", "n", "e", " ", "c", " ">>
                               \o Region(ws) \o <<"\n", "k", " ", "c">>
     ELSE <<"k", " ", "m", " ">> \o Region(ws))

EvalInputs == {EvalText(c, ws) : c \in EvalContexts, ws \in ExprSeqs}

Operand(n) ==
    IF n >= 0 THEN DecimalDigits(n) ELSE <<"0", " ">> \o DecimalDigits(-n) \o <<" ", "-">>

DivText(c, a, b) ==
    LET r == <<".", "{">> \o Operand(a) \o <<" ">> \o Operand(b) \o <<" ", "/", "}", ".">>
    IN IF c = "key" THEN <<"k", " ">> \o r ELSE <<"k", " ", "[">> \o r \o <<"]">>

DivInputs ==
    {DivText(c, a, b) : c \in {"key", "array"},
                        a \in (-MaxOperand)..MaxOperand, b \in (-MaxOperand)..MaxOperand}

----------------------------------------------------------------------------
(* Truncated inputs: nothing or a complete pair, then a construct that the
   end of the input leaves open: up to MaxOpen arrays inside one another
   and, innermost, nothing more, a region, a string or a comment; or a
   define cut before or inside its value. *)

ArrayOpens == {<<"[">>, <<"[", "1", ",", " ">>, <<"[", "1">>, <<"[", "[", "]", ",">>}

InnerOpens ==
    { <<".", "{">>, <<".", "{", "1">>, <<".", "{", "1", " ", "2", " ", "+">>,
      <<"@", "\"", "x">>, <<"@", "\"", "x", "\"", "\"">>,
      <<"<", "#", " ", "c">>, <<"<", "#", " ", "c", " ", "#">> }

OpenTails ==
    {Flatten(os) \o i : os \in SeqsUpTo(ArrayOpens, MaxOpen), i \in InnerOpens}
    \cup {Flatten(os) : os \in SeqsUpTo(ArrayOpens, MaxOpen)}

TruncHeads ==
    { <<"b", " ">>,
      <<"(", "d", "e", "f", "i", "n", "e", " ", "c", " ">> }

TruncPrefixes == {<<>>, <<"a", " ", "1", "\n">>}

TruncInputs ==
    {p \o h \o t : p \in TruncPrefixes, h \in TruncHeads, t \in OpenTails}
    \cup {p \o <<"(", "d", "e", "f", "i", "n", "e">> : p \in TruncPrefixes}

----------------------------------------------------------------------------
(* The text of test_error_handling, its comment shortened to one letter. *)

\* key @\"value\"\ninvalid [ 1, 2  % c\n
C11Text ==
    <<"k","e","y"," ","@","\"","v","a","l","u","e","\"","\n","i","n","v","a","l","i","d",
      " ","["," ","1",","," ","2"," "," ","%"," ","c","\n">>

----------------------------------------------------------------------------
(* A hex prefix with no digit after it. *)

\* k 0x\n
C12TextHex == <<"k", " ", "0", "x", "\n">>

----------------------------------------------------------------------------
(* Repeated keys: 1..MaxPairs lines `key value`, the keys drawn freely from
   KeyNames, the value of line i being the number i, written plainly or as
   a region. *)

MaxPairs == 4

KeyNames == {<<"a">>, <<"b">>, <<"a", "b">>}

KeySeqs == SeqsFromTo(KeyNames, 1, MaxPairs)

PairKinds == {"num", "region"}

PairLine(kind, k, i) ==
    k \o <<" ">>
      \o (IF kind = "num" THEN DecimalDigits(i) ELSE <<".", "{">> \o DecimalDigits(i) \o <<"}", ".">>)
      \o <<"\n">>

DupText(kind, ks) == Flatten([i \in 1..Len(ks) |-> PairLine(kind, ks[i], i)])

DupInputs == {DupText(kind, ks) : kind \in PairKinds, ks \in KeySeqs}

----------------------------------------------------------------------------
(* The blocks of test_game_settings, cut down to the two entries the test
   reads through two levels, and the define written without `)`. *)

\* (define base_speed 100\ngame_settings {\ngraphics {\nresolution [ 1920, 1080 ]\n}\n
\* gameplay {\nplayer_speed .{base_speed 20 *}.\n}\n}\n
C15Text ==
    <<"(","d","e","f","i","n","e"," ","b","a","s","e","_","s","p","e","e","d"," ","1","0",
      "0","\n","g","a","m","e","_","s","e","t","t","i","n","g","s"," ","{","\n","g","r","a",
      "p","h","i","c","s"," ","{","\n","r","e","s","o","l","u","t","i","o","n"," ","["," ",
      "1","9","2","0",","," ","1","0","8","0"," ","]","\n","}","\n","g","a","m","e","p","l",
      "a","y"," ","{","\n","p","l","a","y","e","r","_","s","p","e","e","d"," ",".","{","b",
      "a","s","e","_","s","p","e","e","d"," ","2","0"," ","*","}",".","\n","}","\n","}",
      "\n">>

----------------------------------------------------------------------------
(* Comments.  A case is a list of tokens with the outcome of the text that
   separates them by single blanks; CommentInputs are these texts with one
   filler (nothing, or a comment with or without blanks around it) put at
   one gap: before the first token, between two tokens or after the last. *)

\* (define a 2 k [ 1 , a .{ 3 + }. ] r .{ a abs }.
CommentTokensValid ==
    << <<"(","d","e","f","i","n","e">>, <<"a">>, <<"2">>, <<"k">>, <<"[">>, <<"1">>,
        <<",">>, <<"a">>, <<".","{">>, <<"3">>, <<"+">>, <<"}",".">>, <<"]">>, <<"r">>,
        <<".","{">>, <<"a">>, <<"a","b","s">>, <<"}",".">> >>

\* k [ 1 , 2
CommentTokensOpenArray ==
    << <<"k">>, <<"[">>, <<"1">>, <<",">>, <<"2">> >>

\* k 0
CommentTokensZero ==
    << <<"k">>, <<"0">> >>

\* s @\"% <# #>\" k 1
CommentTokensString ==
    << <<"s">>, <<"@","\"","%"," ","<","#"," ","#",">","\"">>, <<"k">>, <<"1">> >>

Fails == [ok |-> FALSE, cfg |-> <<>>]

Gives(cfg) == [ok |-> TRUE, cfg |-> cfg]

CommentCases ==
    { [toks |-> CommentTokensValid,
       out |-> Gives(<<[key |-> <<"k">>, val |-> Arr_(<<Int_(1), Int_(5)>>)],
                      [key |-> <<"r">>, val |-> Int_(2)]>>)],
      [toks |-> CommentTokensOpenArray, out |-> Fails],
      [toks |-> CommentTokensZero, out |-> Fails],
      [toks |-> CommentTokensString,
       out |-> Gives(<<[key |-> <<"s">>, val |-> Str_(<<"%", " ", "<", "#", " ", "#", ">">>)],
                      [key |-> <<"k">>, val |-> Int_(1)]>>)] }

NoComment == <<>>

\* ` % c\n`, `%\n`, `% <# c\n`, `<# c #>`, ` <# c\n% #> `, `<##>`
Comments ==
    { <<" ", "%", " ", "c", "\n">>,
      <<"%", "\n">>,
      <<"%", " ", "<", "#", " ", "c", "\n">>,
      <<"<", "#", " ", "c", " ", "#", ">">>,
      <<" ", "<", "#", " ", "c", "\n", "%", " ", "#", ">", " ">>,
      <<"<", "#", "#", ">">> }

\* ` % c` with no newline: a comment that the end of the input closes
CommentAtEnd == <<" ", "%", " ", "c">>

Fillers == {NoComment} \cup Comments

CommentText(ts, i, f) ==
    LET left == Words(SubSeq(ts, 1, i))
        right == Words(SubSeq(ts, i + 1, Len(ts)))
    IN IF f = NoComment
       THEN (IF i = 0 \/ i = Len(ts) THEN left \o right ELSE left \o <<" ">> \o right)
       ELSE left \o f \o right

FillersAt(ts, i) == IF i = Len(ts) THEN Fillers \cup {CommentAtEnd} ELSE Fillers

CommentInputs ==
    UNION { UNION { {CommentText(c.toks, i, f) : f \in FillersAt(c.toks, i)}
                    : i \in 0..Len(c.toks) }
            : c \in CommentCases }

----------------------------------------------------------------------------
(* Defines and uses: 1..MaxStmts lines, each a define of a or b (to the
   number of its line, or to the other name) or a key whose value uses a
   name: bare, as the only operand of a top-level region, of a region in an
   array, or as the seed of an empty region.  The key of line i is k<i>. *)

MaxStmts == 3

StmtNames == {<<"a">>, <<"b">>}

Other(n) == IF n = <<"a">> THEN <<"b">> ELSE <<"a">>

Stmts ==
    {[op |-> "def", n |-> n, from |-> f] : n \in StmtNames, f \in {"num", "ref"}}
    \cup {[op |-> "use", n |-> n, from |-> "bare"] : n \in StmtNames}
    \cup {[op |-> "use", n |-> <<"a">>, from |-> f] : f \in {"expr", "body", "seed"}}

StmtSeqs == SeqsFromTo(Stmts, 1, MaxStmts)

StmtKey(i) == <<"k">> \o DecimalDigits(i)

StmtLine(s, i) ==
    (IF s.op = "def"
     THEN <<"(", "d", "e", "f", "i", "n", "e", " ">> \o s.n \o <<" ">>
          \o (IF s.from = "num" THEN DecimalDigits(i) ELSE Other(s.n))
     ELSE StmtKey(i) \o <<" ">>
          \o (IF s.from = "bare" THEN s.n
              ELSE IF s.from = "expr" THEN <<".", "{">> \o s.n \o <<"}", ".">>
              ELSE IF s.from = "body" THEN <<"[", ".", "{">> \o s.n \o <<"}", ".", "]">>
              ELSE s.n \o <<" ", ".", "{", "}", ".">>))
    \o <<"\n">>

StmtText(ss) == Flatten([i \in 1..Len(ss) |-> StmtLine(ss[i], i)])

StmtInputs == {StmtText(ss) : ss \in StmtSeqs}

----------------------------------------------------------------------------
(* `a b +` after EvalPrefix (s is the Str "x", m is -7), a and b each one of
   2, 10, m, s: as the region of a top-level key, of an array element, of a
   define, and with a as the seed name of the region `.{b +}.`. *)

PlusOperands == {<<"2">>, <<"1", "0">>, <<"m">>, <<"s">>}

PlusContexts == {"key", "array", "define", "seed"}

PlusText(c, a, b) ==
    IF c = "seed"
    THEN EvalPrefix \o <<"k", " ">> \o a \o <<" ">> \o Region(<<b, <<"+">>>>)
    ELSE EvalText(c, <<a, b, <<"+">>>>)

PlusCases ==
    {[c |-> c, a |-> a, b |-> b] :
        c \in PlusContexts \ {"seed"}, a \in PlusOperands, b \in PlusOperands}
    \cup {[c |-> "seed", a |-> a, b |-> b] : a \in {<<"m">>, <<"s">>}, b \in PlusOperands}

PlusInputs == {PlusText(x.c, x.a, x.b) : x \in PlusCases}

----------------------------------------------------------------------------
(* Regions of one or two operands of which at least one is a name with no
   define (u, zz), after EvalPrefix: as the region of a top-level key, of an
   array element and of a define. *)

UndefinedNames == {<<"u">>, <<"z", "z">>}

UnknownSeqs ==
    {ws \in SeqsFromTo(UndefinedNames \cup {<<"m">>, <<"2">>}, 1, 2) :
        \E i \in 1..Len(ws) : ws[i] \in UndefinedNames}

UnknownContexts == {"key", "array", "define"}

UnknownInputs == {EvalText(c, ws) : c \in UnknownContexts, ws \in UnknownSeqs}

----------------------------------------------------------------------------
\* k .{5 10 -}.
C23TextSub == <<"k", " ", ".", "{", "5", " ", "1", "0", " ", "-", "}", ".">>

----------------------------------------------------------------------------
(* Seeded regions `n .{ws}.` after EvalPrefix: the seed n is m (-7), s ("x")
   or u (no define), the region is empty, `2 +` or `2`, as the value of a
   top-level key, of an array element and of a define. *)

\* (define b 8000\nk b .{80 +}.
C24Text ==
    <<"(", "d", "e", "f", "i", "n", "e", " ", "b", " ", "8", "0", "0", "0", "\n",
      "k", " ", "b", " ", ".", "{", "8", "0", " ", "+", "}", ".">>

SeedNames == {<<"m">>, <<"s">>, <<"u">>}

SeedRegions == {<<>>, <<<<"2">>, <<"+">>>>, <<<<"2">>>>}

SeedContexts == {"key", "array", "define"}

SeedText(c, n, ws) ==
    EvalPrefix \o
    (IF c = "key" THEN <<"k", " ">> \o n \o <<" ">> \o Region(ws)
     ELSE IF c = "array" THEN <<"k", " ", "[">> \o n \o <<" ">> \o Region(ws) \o <<"]">>
     ELSE <<"(", "d", "e", "f", "i", "n", "e", " ", "c", " ">> \o n \o <<" ">>
          \o Region(ws) \o <<"\n", "k", " ", "c">>)

SeedInputs == {SeedText(c, n, ws) : c \in SeedContexts, n \in SeedNames, ws \in SeedRegions}

----------------------------------------------------------------------------
(* Arrays with a misplaced comma: two elements with no comma between them,
   a trailing, a leading and a doubled comma, and `[,]`; alone as the value
   of k, as the second element of an outer array, and followed by a further
   pair. *)

CommaElems ==
    {<<"1">>, <<"2">>, <<"a">>, <<"@", "\"", "s", "\"">>, <<"[", "2", "]">>,
     <<".", "{", "2", "}", ".">>}

BadArrays ==
    {<<"[">> \o x \o <<" ">> \o y \o <<"]">> : x \in CommaElems, y \in CommaElems}
    \cup {<<"[">> \o x \o <<",", "]">> : x \in CommaElems}
    \cup {<<"[", ",">> \o x \o <<"]">> : x \in CommaElems}
    \cup {<<"[">> \o x \o <<",", ",">> \o y \o <<"]">> : x \in CommaElems, y \in CommaElems}
    \cup {<<"[", ",", "]">>}

CommaInputs ==
    {<<"k", " ">> \o b : b \in BadArrays}
    \cup {<<"k", " ", "[", "0", ",", " ">> \o b \o <<"]">> : b \in BadArrays}
    \cup {<<"k", " ">> \o b \o <<"\n", "r", " ", "1">> : b \in BadArrays}

----------------------------------------------------------------------------
(* Two errors in one input: a region (of a top-level key, or of an array
   element) with a semantic error at its last token, followed by the
   character `$`, which is no token. *)

SemanticErrors ==
    {[src |-> <<"1", " ", "0", " ", "/">>, msg |-> "Division by zero"],
     [src |-> <<"-">>, msg |-> "Not enough operands for operator"],
     [src |-> <<"1", " ", "-">>, msg |-> "Not enough operands for operator"],
     [src |-> <<"a", "b", "s">>, msg |-> "Not enough arguments for function"],
     [src |-> <<"1", " ", "2", "}", ".">>, msg |-> "Invalid constant expression"],
     [src |-> <<"}", ".">>, msg |-> "Invalid constant expression"]}

ErrorOrderContexts == {"key", "array"}

ErrorOrderText(c, s) ==
    (IF c = "key" THEN <<"k", " ", ".", "{">> ELSE <<"k", " ", "[", ".", "{">>)
    \o s.src \o <<" ", "$">>

ErrorOrderInputs == {ErrorOrderText(c, s) : c \in ErrorOrderContexts, s \in SemanticErrors}

----------------------------------------------------------------------------
(* Large integers.  Python's int has no width; the model's integers are
   TLC's, exact up to 2^31 - 1.  IntBits is the width of the machine word the
   values are compared with, scaled from 64 so that values outside the word
   are within TLC's range. *)

IntBits == 16

\* k 0xFFFFF
C27TextHex == <<"k", " ", "0", "x", "F", "F", "F", "F", "F", "\n">>

\* k .{30000 30000 +}.
C27TextSum ==
    <<"k", " ", ".", "{", "3", "0", "0", "0", "0", " ", "3", "0", "0", "0", "0", " ", "+",
      "}", ".">>

\* (define c .{0 30000 - 30000 -}.\nk [.{c abs}.]
C27TextDiff ==
    <<"(", "d", "e", "f", "i", "n", "e", " ", "c", " ", ".", "{", "0", " ", "3", "0", "0",
      "0", "0", " ", "-", " ", "3", "0", "0", "0", "0", " ", "-", "}", ".", "\n",
      "k", " ", "[", ".", "{", "c", " ", "a", "b", "s", "}", ".", "]">>

\* k .{999 999 *}.
C27TextProduct ==
    <<"k", " ", ".", "{", "9", "9", "9", " ", "9", "9", "9", " ", "*", "}", ".">>

WideInputs == {C27TextHex, C27TextSum, C27TextDiff, C27TextProduct}

\* C29: a key and a constant of the same name
C29Text ==
    <<"(","d","e","f","i","n","e"," ","a"," ","1","\n","a"," ","5","\n","b"," ","a">>

C29TextRegions ==
    <<"(","d","e","f","i","n","e"," ","a"," ","1","\n","a"," ","5","\n","b"," ","a","\n",
      "(","d","e","f","i","n","e"," ","c"," ",".","{","a"," ","1"," ","+","}",".","\n","d",
      " ","[",".","{","a","}",".","]">>

(* The same region twice after EvalPrefix, once as the value of the define c
   (parse_const_expression_body) and once as the direct value of the key k
   (parse_const_expression with no seed), in both orders. *)

AgreeSeqs ==
    ExprSeqs \cup UnknownSeqs \cup {<<a, b, <<"+">>>> : a \in PlusOperands, b \in PlusOperands}

AgreeOrders == {"define", "key"}

AgreeText(first, ws) ==
    LET d == <<"(", "d", "e", "f", "i", "n", "e", " ", "c", " ">> \o Region(ws)
        k == <<"k", " ">> \o Region(ws)
    IN EvalPrefix \o (IF first = "define" THEN d \o <<"\n">> \o k ELSE k \o <<"\n">> \o d)

AgreeInputs == {AgreeText(o, ws) : o \in AgreeOrders, ws \in AgreeSeqs}

----------------------------------------------------------------------------

Inputs ==
    BaseInputs
    \cup {C1TextConst, C1TextNested, C1TextConstOpen, C1TextNestedOpen}
    \cup {C5TextQuoted, C5TextDouble, C5TextQuotedDoubled, C5TextDoubleDoubled}
    \cup {C9TextAbs}
    \cup {C11Text}
    \cup {C12TextHex}
    \cup {C15Text}
    \cup DupInputs
    \cup CommentInputs
    \cup StmtInputs
    \cup PlusInputs
    \cup UnknownInputs
    \cup {C23TextSub}
    \cup {C24Text} \cup SeedInputs
    \cup CommaInputs
    \cup ErrorOrderInputs
    \cup WideInputs
    \cup {C29Text, C29TextRegions}
    \cup AgreeInputs
    \cup LitInputs \cup ArrInputs \cup StrInputs \cup NameInputs
    \cup EvalInputs \cup DivInputs \cup TruncInputs

Init == InitOn(Inputs)

Spec == Init /\ [][Next]_vars

----------------------------------------------------------------------------
(* The tokenizer on its own: a caller that keeps asking for the next token,
   as Parser.__init__ and Parser.eat do, also after the end of the input. *)

\* k 1 % c
LexTextComment == <<"k", " ", "1", " ", "%", " ", "c">>

\* k 1 <# c #> \n
LexTextSpace == <<"k", " ", "1", " ", "<", "#", " ", "c", " ", "#", ">", " ", "\n">>

LexInputs ==
    BaseInputs \cup {C1TextConst, C5TextQuoted, C11Text, C12TextHex, LexTextComment, LexTextSpace}
    \cup StrInputs \cup NameInputs \cup TruncInputs

LexInit ==
    /\ text \in LexInputs
    /\ pos = 0
    /\ current_token = Tok("NONE", <<>>)
    /\ constants = <<>>
    /\ config = <<>>
    /\ frames = <<>>
    /\ pc = "lex"
    /\ retval = NoValue
    /\ err = NoErr
    /\ result = <<>>
    /\ output = Untouched

\* current_token = lexer.get_next_token()
LexStep ==
    /\ pc = "lex"
    /\ LET n == get_next_token(pos)
       IN IF n.err # NoErr
          THEN /\ pc' = "raised"
               /\ err' = n.err
               /\ pos' = n.pos
               /\ UNCHANGED current_token
          ELSE /\ current_token' = Tok(n.type, n.value)
               /\ pos' = n.pos
               /\ UNCHANGED <<pc, err>>
    /\ UNCHANGED <<text, constants, config, frames, retval, result, output>>

LexSpec == LexInit /\ [][LexStep]_vars

----------------------------------------------------------------------------
(* The run as the interpreter executes it: a sequential program, whose next
   statement is always executed. *)

LiveInputs ==
    BaseInputs \cup TruncInputs \cup CommaInputs \cup SeedInputs \cup PlusInputs
    \cup UnknownInputs \cup ErrorOrderInputs \cup WideInputs \cup DupInputs
    \cup {C1TextConst, C1TextNested, C5TextQuoted, C9TextAbs, C11Text, C12TextHex,
          C15Text, C23TextSub, C24Text}

LiveInit == InitOn(LiveInputs)

LiveSpec == LiveInit /\ [][Next]_vars /\ WF_vars(Next)

----------------------------------------------------------------------------
(* Properties *)

Pair(k, x) == [key |-> k, val |-> x]

Returned(cfg) == pc = "returned" /\ result = cfg

EvalPc == pc \in {"body", "expr"}

\* the evaluator is at operator op with two operands, and the token after
\* op is lexed without error: the operator is applied in this step
OperatorApplied(op) ==
    /\ EvalPc
    /\ current_token = Tok("OPERATOR", <<op>>)
    /\ Len(Top.vals) >= 2
    /\ get_next_token(pos).err = NoErr

LeftOperand == Top.vals[Len(Top.vals) - 1]

RightOperand == Top.vals[Len(Top.vals)]

\* the evaluator is at a function token, and the token after it is lexed
\* without error: the function is applied in this step
FunctionApplied ==
    /\ EvalPc
    /\ current_token.type = "FUNCTION"
    /\ get_next_token(pos).err = NoErr

\* C1: `(define name value)` with its closing parenthesis is stored and
\* substituted: the first text gives port = 8080, the second result = 150.
C1_ParenDefineSubstituted ==
    /\ (text = C1TextConst /\ pc \in Final)
          => Returned(<<Pair(<<"p","o","r","t">>, Int_(8080))>>)
    /\ (text = C1TextNested /\ pc \in Final)
          => Returned(<<Pair(<<"r","e","s","u","l","t">>, Int_(150))>>)

\* the value of a digit string in a base, by the place of each digit
RECURSIVE Power(_, _)
Power(b, n) == IF n = 0 THEN 1 ELSE b * Power(b, n - 1)

RECURSIVE PlaceSum(_, _, _)
PlaceSum(ds, base, i) ==
    IF i > Len(ds) THEN 0
    ELSE DigitValue(ds[i]) * Power(base, Len(ds) - i) + PlaceSum(ds, base, i + 1)

LiteralValue(lit) ==
    IF Len(lit) >= 2 /\ lit[2] \in {"x", "X"}
    THEN PlaceSum(SubSeq(lit, 3, Len(lit)), 16, 1)
    ELSE PlaceSum(lit, 10, 1)

LitExpected(c, lit) ==
    IF c \in {"array", "body"}
    THEN Arr_(<<Int_(LiteralValue(lit))>>)
    ELSE Int_(LiteralValue(lit))

\* C2: every decimal and every hex literal used as a value parses to the Int
\* of its base-10 or base-16 value, wherever it stands, the end of the input
\* included.
C2_LiteralValue ==
    pc \in Final =>
        \A c \in LitContexts, lit \in Literals :
            text = LitText(c, lit) => Returned(<<Pair(<<"k">>, LitExpected(c, lit))>>)

\* C3: an array literal of n items parses to the sequence of the n values in
\* source order, each with its own type, nested arrays by the same rule and
\* `[]` to the empty sequence.
C3_ArrayOrder ==
    (pc \in Final /\ text \in ArrInputs) =>
        \A d \in ArrayDescs :
            text = ArrText(d) => Returned(<<Pair(<<"k">>, d.val)>>)

C3_Witness ==
    /\ text = <<"k"," ","[","1",","," ","@","\"","t","w","o","\"",","," ","0","x","0","3","]">>
    /\ Returned(<<Pair(<<"k">>, Arr_(<<Int_(1), Str_(<<"t","w","o">>), Int_(3)>>))>>)

\* C4: a closed string literal's value is its body with every doubled quote
\* replaced by one quote and every other character unchanged.
C4_StringDecoding ==
    (pc \in Final /\ text \in StrInputs) =>
        \A b \in Bodies, tail \in StrTails :
            text = StrText(b, tail) =>
                /\ pc = "returned"
                /\ DictGet(result, <<"k">>) = Str_(BodyOut(b))

C4_Witness ==
    /\ text = <<"k"," ","@","\"","a","\"","\"","\"">>
    /\ Returned(<<Pair(<<"k">>, Str_(<<"a","\"">>))>>)

\* C5: a string literal holding an inner phrase between single quote
\* characters parses to the text with the inner quotes kept.
C5_InnerQuotedPhrase ==
    /\ (text = C5TextQuoted /\ pc \in Final)
          => Returned(<<Pair(<<"q","u","o","t","e","d">>,
               Str_(<<"H","e"," ","s","a","i","d"," ","\"","H","e","l","l","o",","," ",
                      "W","o","r","l","d","!","\"">>))>>)
    /\ (text = C5TextDouble /\ pc \in Final)
          => Returned(<<Pair(<<"d","o","u","b","l","e","_","q","u","o","t","e","s">>,
               Str_(<<"T","h","i","s"," ","i","s"," ","a"," ","\"","t","e","s","t","\"",
                      " ","s","t","r","i","n","g">>))>>)

NameExpected(c, n) ==
    IF c = "key" THEN <<Pair(<<"k">>, Str_(n))>>
    ELSE IF c = "line" THEN <<Pair(<<"k">>, Str_(n)), Pair(<<"r">>, Int_(1))>>
    ELSE IF c = "array" THEN <<Pair(<<"k">>, Arr_(<<Str_(n), Int_(1)>>))>>
    ELSE <<Pair(<<"k">>, Str_(n))>>

\* C6: an undefined bare name used as a key's value, an array element or a
\* define's value, and not followed by `.{`, is the Str of the name itself,
\* and the parse succeeds.
C6_BareNameFallback ==
    (pc \in Final /\ text \in NameInputs) =>
        \A c \in NameContexts, n \in Names :
            text = NameText(c, n) =>
                /\ Returned(NameExpected(c, n))
                /\ (c = "define" => constants = <<Pair(<<"c">>, Str_(n))>>)

C6_Witness ==
    /\ text = NameText("array", <<"f","o","o">>)
    /\ Returned(<<Pair(<<"k">>, Arr_(<<Str_(<<"f","o","o">>), Int_(1)>>))>>)

\* q is the floor of a / b: the remainder a - q*b has the sign of b and is
\* smaller than b in magnitude
IsFloorQuotient(q, a, b) ==
    LET r == a - q * b
    IN IF b > 0 THEN 0 <= r /\ r < b ELSE b < r /\ r <= 0

C8_DivisionByZero ==
    [][(OperatorApplied("/") /\ IsZero(RightOperand))
        => /\ pc' = "exit"
           /\ err' = SyntaxErr("Division by zero")
           /\ frames' = frames
           /\ result' = <<>>]_vars

C8_Witness ==
    /\ text = EvalText("seed", << <<"0">>, <<"/">> >>)
    /\ pc = "exit"
    /\ err = SyntaxErr("Division by zero")
    /\ Top.fn = "expr"
    /\ Top.vals = <<Int_(-7), Int_(0)>>

\* C9: in both evaluators `abs` replaces an Int on top of the stack by its
\* absolute value; on an empty stack it is the fatal error "Not enough
\* arguments", and on a Str it is a fatal error about the operand's type.
C9_Abs ==
    [][FunctionApplied
        => LET st == Top.vals
           IN IF Len(st) = 0
              THEN /\ pc' = "exit"
                   /\ err' = SyntaxErr("Not enough arguments for function")
              ELSE IF IsInt(st[Len(st)])
              THEN LET st2 == frames'[Len(frames')].vals
                   IN /\ pc' = pc
                      /\ Len(frames') = Len(frames)
                      /\ Len(st2) = Len(st)
                      /\ Drop(st2, 1) = Drop(st, 1)
                      /\ IsInt(st2[Len(st2)])
                      /\ st2[Len(st2)].v >= 0
                      /\ st2[Len(st2)].v \in {st[Len(st)].v, -st[Len(st)].v}
              ELSE IF IsStr(st[Len(st)])
              THEN /\ pc' = "exit"
                   /\ \/ err' = SyntaxErr("Function abs expects numeric argument")
                      \/ err' = TypeErr("bad operand type for abs()")
                   /\ result' = <<>>
              ELSE TRUE]_vars

C9_Witness ==
    /\ text = C9TextAbs
    /\ Returned(<<Pair(<<"k">>, Int_(5))>>)

\* control is at a step of some parser function (the guard of an action holds)
AtStep ==
    \/ pc \in {"start", "config", "define", "value", "array"}
    \/ pc = "ret" /\ Len(frames) > 0 /\ Top.fn \in {"define", "key", "array"}
    \/ pc = "body" /\ Len(frames) > 0 /\ Top.fn = "body"
    \/ pc \in {"expr_enter", "expr"} /\ Len(frames) > 0 /\ Top.fn = "expr"

\* C10: an input that ends inside an open array, comment, string, region,
\* define or key/value pair ends in a fatal error; no Config is returned,
\* whatever pairs came before.
C10_TruncatedInputFails ==
    text \in TruncInputs =>
        /\ pc # "returned"
        /\ result = <<>>
        /\ (pc \in Final \/ AtStep)
        /\ (pc \in Final => err # NoErr)

C10_Witness ==
    /\ text = <<"a"," ","1","\n","b"," ","[","1",","," ">>
    /\ pc = "exit"
    /\ config = <<Pair(<<"a">>, Int_(1))>>
    /\ result = <<>>

\* C11: on the text of test_error_handling (an array that is never closed)
\* convert_to_json raises SyntaxError to its caller.
C11_RaisesSyntaxError ==
    (text = C11Text /\ pc \in Final) => (pc = "raised" /\ err.kind = "SyntaxError")

\* C12: every failure of the tokenizer, the parser or an evaluator is a
\* SyntaxError raised by Lexer.error or Parser.error; no input fails with
\* another kind of error.
C12_SingleErrorKind ==
    pc \in {"exit", "raised"} => err.kind = "SyntaxError"

\* C13: once get_next_token has returned the end-of-input token, the next
\* call (hence every later one) returns the end-of-input token again, without
\* error and without moving the position.
C13_EofIdempotent ==
    (pc = "lex" /\ current_token.type = "EOF") =>
        LET n == get_next_token(pos)
        IN /\ n.type = "EOF"
           /\ n.err = NoErr
           /\ n.pos = pos

C13_Witness ==
    /\ text = LexTextSpace
    /\ pc = "lex"
    /\ current_token.type = "EOF"
    /\ pos = Len(text)

FirstOcc(ks, k) == CHOOSE i \in 1..Len(ks) : ks[i] = k /\ \A j \in 1..(i - 1) : ks[j] # k

LastOcc(ks, k) == CHOOSE i \in 1..Len(ks) : ks[i] = k /\ \A j \in (i + 1)..Len(ks) : ks[j] # k

\* C14: with keys repeated at top level the parse succeeds, the Config has
\* exactly one entry per key of the input, its value is that of the key's last
\* occurrence, and the entries are ordered by the keys' first occurrences.
C14_LastWriteWins ==
    (pc \in Final /\ text \in DupInputs) =>
        \A kind \in PairKinds, ks \in KeySeqs :
            text = DupText(kind, ks) =>
                /\ pc = "returned"
                /\ \A i, j \in 1..Len(result) : i # j => result[i].key # result[j].key
                /\ {result[i].key : i \in 1..Len(result)} = {ks[i] : i \in 1..Len(ks)}
                /\ \A i \in 1..Len(result) : result[i].val = Int_(LastOcc(ks, result[i].key))
                /\ \A i, j \in 1..Len(result) :
                      i < j => FirstOcc(ks, result[i].key) < FirstOcc(ks, result[j].key)

\* a 1, b 2, a 3, b 4: both keys once, in the order a, b, with the last values
C14_Witness ==
    /\ text = DupText("num", <<(<<"a">>), (<<"b">>), (<<"a">>), (<<"b">>)>>)
    /\ Returned(<<Pair(<<"a">>, Int_(3)), Pair(<<"b">>, Int_(4))>>)

\* a nested mapping as a value
Map_(d) == [t |-> "Map", v |-> d]

\* C15: a key followed by a `{ ... }` block yields a nested mapping; blocks
\* nest and the regions inside them are evaluated: for the game-settings text
\* graphics.resolution is [1920, 1080] and gameplay.player_speed is 2000.
C15_NestedBlocks ==
    (text = C15Text /\ pc \in Final) =>
        Returned(<<Pair(<<"g","a","m","e","_","s","e","t","t","i","n","g","s">>,
            Map_(<<Pair(<<"g","r","a","p","h","i","c","s">>,
                      Map_(<<Pair(<<"r","e","s","o","l","u","t","i","o","n">>,
                                  Arr_(<<Int_(1920), Int_(1080)>>))>>)),
                   Pair(<<"g","a","m","e","p","l","a","y">>,
                      Map_(<<Pair(<<"p","l","a","y","e","r","_","s","p","e","e","d">>,
                                  Int_(2000))>>))>>))>>)

CommentTokenTypes == {"COMMENT_SINGLE", "COMMENT_MULTI_START", "COMMENT_MULTI_END"}

\* C16: a `%` comment or a closed `<# #>` comment put before the first token,
\* between two tokens or after the last token of an input leaves the outcome
\* (the Config, or the failure) as it is without the comment, and no comment
\* token reaches the parser.
C16_CommentsInvisible ==
    /\ current_token.type \notin CommentTokenTypes
    /\ pc \in Final =>
          \A c \in CommentCases :
              \A i \in 0..Len(c.toks) :
                  \A f \in FillersAt(c.toks, i) :
                      text = CommentText(c.toks, i, f) =>
                          IF c.out.ok THEN Returned(c.out.cfg) ELSE pc \in {"exit", "raised"}

ParseFailed == pc \in {"exit", "raised"}

\* C17: main touches the output file only after convert_to_json has returned
\* the Config of the whole input; a run whose parse fails ends with status 1
\* and the file as it was.
C17_OutputOnlyAfterParse ==
    [][/\ output' # output =>
            /\ pc = "returned"
            /\ current_token.type = "EOF"
            /\ frames = <<>>
            /\ result = config
            /\ output' \in {Written(result), Truncated}
       /\ ParseFailed' => (output' = Untouched /\ ExitStatus' = 1)
       /\ ParseFailed => (pc' = pc /\ output' = output)]_vars

\* the unclosed array of test_error_handling: the pair before it is parsed,
\* the run exits and the file is untouched
C17_Witness ==
    /\ text = C11Text
    /\ pc = "exit"
    /\ config = <<Pair(<<"k","e","y">>, Str_(<<"v","a","l","u","e">>))>>
    /\ output = Untouched

(* What a list of defines and uses means, line by line: env gives each name
   its latest define so far (Undef before the first), a use of a defined
   name is its value now, a bare use of an undefined name is the name as a
   Str, and an undefined name in a region (or as a seed) is a failure. *)

Undef == [t |-> "Undef", v |-> <<>>]

EmptyEnv == [n \in StmtNames |-> Undef]

RECURSIVE RefRun(_, _, _, _)
RefRun(ss, i, env, cfg) ==
    IF i > Len(ss) THEN [ok |-> TRUE, cfg |-> cfg, env |-> env]
    ELSE LET s == ss[i]
             now == IF s.op = "def" /\ s.from = "ref" THEN env[Other(s.n)] ELSE env[s.n]
             name == IF s.op = "def" /\ s.from = "ref" THEN Other(s.n) ELSE s.n
         IN IF s.op = "def"
            THEN RefRun(ss, i + 1,
                        [env EXCEPT ![s.n] = IF s.from = "num" THEN Int_(i)
                                             ELSE IF now = Undef THEN Str_(name) ELSE now],
                        cfg)
            ELSE IF s.from = "bare"
            THEN RefRun(ss, i + 1, env,
                        Append(cfg, Pair(StmtKey(i), IF now = Undef THEN Str_(name) ELSE now)))
            ELSE IF now = Undef THEN [ok |-> FALSE, cfg |-> cfg, env |-> env]
            ELSE RefRun(ss, i + 1, env,
                        Append(cfg, Pair(StmtKey(i), IF s.from = "body" THEN Arr_(<<now>>) ELSE now)))

IsPrefix(l, t) == Len(l) <= Len(t) /\ SubSeq(t, 1, Len(l)) = l

\* the lines a text of StmtInputs was made of, from line i on (no line of
\* number i is the prefix of another: each ends its text line)
RECURSIVE StmtsOf(_, _)
StmtsOf(t, i) ==
    IF t = <<>> THEN <<>>
    ELSE LET s == CHOOSE s \in Stmts : IsPrefix(StmtLine(s, i), t)
         IN <<s>> \o StmtsOf(SubSeq(t, Len(StmtLine(s, i)) + 1, Len(t)), i + 1)

\* every name a line refers to has a define on an earlier line
AllRefsDefined(ss) ==
    \A i \in 1..Len(ss) :
        (ss[i].op = "use" \/ ss[i].from = "ref") =>
            \E j \in 1..(i - 1) :
                /\ ss[j].op = "def"
                /\ ss[j].n = (IF ss[i].op = "use" THEN ss[i].n ELSE Other(ss[i].n))

EnvIs(env) ==
    \A n \in StmtNames :
        IF env[n] = Undef THEN ~HasKey(constants, n)
        ELSE HasKey(constants, n) /\ DictGet(constants, n) = env[n]

\* C18: after any defines, a bare name and a name in a region resolve to the
\* value of the latest earlier define of the name; redefining is no error;
\* and no step removes a name from the symbol table.
C18_ResolvesToLatestDefine ==
    /\ []((pc \in Final /\ text \in StmtInputs) =>
            LET ss == StmtsOf(text, 1)
            IN /\ StmtText(ss) = text
               /\ AllRefsDefined(ss) =>
                     LET r == RefRun(ss, 1, EmptyEnv, <<>>)
                     IN Returned(r.cfg) /\ EnvIs(r.env))
    /\ [][\A i \in 1..Len(constants) : HasKey(constants', constants[i].key)]_vars

\* (define a 1, (define a 2, k3 .{a}.
C18_Witness ==
    /\ text = StmtText(<<[op |-> "def", n |-> <<"a">>, from |-> "num"],
                         [op |-> "def", n |-> <<"a">>, from |-> "num"],
                         [op |-> "use", n |-> <<"a">>, from |-> "expr"]>>)
    /\ Returned(<<Pair(<<"k", "3">>, Int_(2))>>)
    /\ constants = <<Pair(<<"a">>, Int_(2))>>

\* C19: a name used before its first define is undefined there (the name as
\* a Str in value position, a failure in a constant expression), whatever is
\* defined later, and a later define changes no value already in the Config.
C19_NoForwardReference ==
    (pc \in Final /\ text \in StmtInputs) =>
        LET r == RefRun(StmtsOf(text, 1), 1, EmptyEnv, <<>>)
        IN IF r.ok THEN Returned(r.cfg)
           ELSE pc \in {"exit", "raised"} /\ result = <<>>

\* the evaluator is at the closing `}.` of its region
AtRegionEnd == EvalPc /\ current_token.type = "CONST_EXPR_END"

\* C20 as stated: a region returns only from a stack of exactly one value,
\* and an empty region `.{ }.` is a fatal error in every context where a
\* region can appear (a key's value, an array element, a define's value,
\* after a seed name).
C20_EmptyRegionFatalEverywhere ==
    pc \in Final =>
        \A c \in EvalContexts : text = EvalText(c, <<>>) => pc = "exit"

\* C20, amended: a region returns a value only from its closing `}.` with
\* exactly one value on the stack, and that value is the result; at `}.`
\* with no value or with two or more the parse fails.  The stack of a region
\* entered after a seed name starts with the seed: an empty region is fatal
\* as a key's value, an array element and a define's value, and after a seed
\* it returns the seed.
C20_ExactlyOneValue ==
    /\ [][/\ (EvalPc /\ pc' = "ret") =>
                /\ AtRegionEnd
                /\ Len(Top.vals) = 1
                /\ retval' = Top.vals[1]
          /\ (AtRegionEnd /\ Len(Top.vals) # 1) =>
                /\ pc' = "exit"
                /\ err'.kind = "SyntaxError"]_vars
    /\ [](pc \in Final =>
            /\ \A c \in EvalContexts \ {"seed"} :
                  text = EvalText(c, <<>>) =>
                      pc = "exit" /\ err = SyntaxErr("Invalid constant expression")
            /\ text = EvalText("seed", <<>>) => Returned(<<Pair(<<"k">>, Int_(-7))>>))

\* [.{2 0}.] ends with two values on the stack
C20_Witness ==
    /\ text = EvalText("array", <<<<"2">>, <<"0">>>>)
    /\ pc = "exit"
    /\ err = SyntaxErr("Invalid constant expression")
    /\ Len(Top.vals) = 2

\* the value of an operand of PlusOperands after EvalPrefix
OperandValue(w) ==
    IF w = <<"s">> THEN Str_(<<"x">>)
    ELSE IF w = <<"m">> THEN Int_(-7)
    ELSE IF w = <<"2">> THEN Int_(2)
    ELSE Int_(10)

\* the text of a value under `+` with a Str: a Str as it is, an Int in decimal
ConcatText(x) == IF IsStr(x) THEN x.v ELSE IntToStr(x.v)

\* the Config of PlusText(c, a, b) when its region has the value x
PlusConfig(c, x) ==
    <<Pair(<<"k">>, IF c = "array" THEN Arr_(<<x>>) ELSE x)>>

\* C21: in every constant expression, `+` with a Str operand gives the
\* concatenation of a then b, an Int operand in decimal text: for the region
\* of a top-level key as for a region in value position.
C21_PlusConcatenates ==
    (pc \in Final /\ text \in PlusInputs) =>
        \A x \in PlusCases :
            LET a == OperandValue(x.a)
                b == OperandValue(x.b)
            IN (text = PlusText(x.c, x.a, x.b) /\ x.c # "seed" /\ (IsStr(a) \/ IsStr(b))) =>
                   Returned(PlusConfig(x.c, Str_(ConcatText(a) \o ConcatText(b))))

\* C22: in any region (of a top-level key, of a define, of an array element)
\* a name that is no defined constant is the fatal error "unknown constant",
\* and it is never on the evaluator's stack as a Str.
C22_UnknownConstantFatal ==
    text \in UnknownInputs =>
        /\ pc \in Final =>
              pc = "exit" /\ err = SyntaxErr("Unknown constant")
        /\ EvalPc =>
              \A i \in 1..Len(Top.vals) :
                  ~(IsStr(Top.vals[i]) /\ Top.vals[i].v \in UndefinedNames)

\* the evaluator is at operator op with fewer than two operands, and the
\* token after op is lexed without error
OperatorUnderflow ==
    /\ EvalPc
    /\ current_token.type = "OPERATOR"
    /\ Len(Top.vals) < 2
    /\ get_next_token(pos).err = NoErr

\* a op b on integers, `/` by its defining property
IsIntResult(op, r, a, b) ==
    IF op = "+" THEN r = a + b
    ELSE IF op = "-" THEN r = a - b
    ELSE IF op = "*" THEN r = a * b
    ELSE IsFloorQuotient(r, a, b)

\* C23: a binary operator takes the top of the stack as its right operand b
\* and the value below as its left operand a and replaces both by `a op b`
\* (`.{5 10 -}.` is -5, `.{7 2 /}.` is 3); with fewer than two values on the
\* stack it is the fatal error "not enough operands" and the stack is as it
\* was.
C23_BinaryOperator ==
    /\ [][/\ \A op \in {"+", "-", "*", "/"} :
                (OperatorApplied(op) /\ IsInt(LeftOperand) /\ IsInt(RightOperand)
                    /\ (op = "/" => RightOperand.v # 0))
                => LET st == frames'[Len(frames')].vals
                   IN /\ pc' = pc
                      /\ Len(frames') = Len(frames)
                      /\ Len(st) = Len(Top.vals) - 1
                      /\ SubSeq(st, 1, Len(st) - 1) = Drop(Top.vals, 2)
                      /\ IsInt(st[Len(st)])
                      /\ IsIntResult(op, st[Len(st)].v, LeftOperand.v, RightOperand.v)
          /\ OperatorUnderflow
                => /\ pc' = "exit"
                   /\ err' = SyntaxErr("Not enough operands for operator")
                   /\ frames' = frames]_vars
    /\ [](pc \in Final =>
            /\ text = C23TextSub => Returned(<<Pair(<<"k">>, Int_(-5))>>)
            /\ text = DivText("key", 7, 2) => Returned(<<Pair(<<"k">>, Int_(3))>>))

\* k .{5 10 -}. gives -5
C23_Witness ==
    /\ text = C23TextSub
    /\ Returned(<<Pair(<<"k">>, Int_(-5))>>)

\* parse_const_expression is entered with a seed name, and the first token
\* of the region is lexed without error
SeedEntered ==
    /\ pc = "expr_enter"
    /\ Top.name # <<>>
    /\ get_next_token(pos).err = NoErr

\* C24: a bare name in value position followed by `.{` is the seed of the
\* region: a defined constant's value is the only stack element when the
\* region's first token is processed (`b .{80 +}.` is 8080 after
\* `(define b 8000`), and a name with no define ends the parse, as it is no
\* decimal number; the name itself is never the value of a seed.
C24_SeedOperand ==
    /\ [][SeedEntered =>
            IF HasKey(constants, Top.name)
            THEN /\ pc' = "expr"
                 /\ Len(frames') = Len(frames)
                 /\ frames'[Len(frames')].vals = <<DictGet(constants, Top.name)>>
            ELSE /\ pc' = "exit"
                 /\ err' = SyntaxErr("Invalid constant expression argument")]_vars
    /\ [](pc \in Final =>
            /\ text = C24Text =>
                  Returned(<<Pair(<<"k">>, Int_(8080))>>)
            /\ \A c \in SeedContexts :
                  /\ text = SeedText(c, <<"m">>, <<<<"2">>, <<"+">>>>) =>
                        Returned(<<Pair(<<"k">>, IF c = "array" THEN Arr_(<<Int_(-5)>>)
                                                  ELSE Int_(-5))>>)
                  /\ \A ws \in SeedRegions :
                        text = SeedText(c, <<"u">>, ws) =>
                            /\ pc = "exit"
                            /\ err = SyntaxErr("Invalid constant expression argument")
                            /\ result = <<>>)

\* the seed u of an array element's region has no define
C24_Witness ==
    /\ text = SeedText("array", <<"u">>, <<<<"2">>, <<"+">>>>)
    /\ pc = "exit"
    /\ err = SyntaxErr("Invalid constant expression argument")
    /\ Top.name = <<"u">>

C26_FirstErrorReported ==
    pc \in Final =>
        \A c \in ErrorOrderContexts, s \in SemanticErrors :
            text = ErrorOrderText(c, s) =>
                pc = "exit" /\ err = SyntaxErr(s.msg)

\* n is a signed integer of IntBits bits
InWord(n) == -Power(2, IntBits - 1) <= n /\ n <= Power(2, IntBits - 1) - 1

\* every Int of the value x, and of its elements, is in the word
RECURSIVE Fits(_)
Fits(x) ==
    IF IsInt(x) THEN InWord(x.v)
    ELSE IF IsArr(x) THEN \A i \in 1..Len(x.v) : Fits(x.v[i])
    ELSE TRUE

\* C27: every Int in the symbol table, on an evaluator's stack or in the
\* Config is a signed integer of the machine word (64 bits in the claim,
\* IntBits here), after any literal and any sequence of + - * / abs.
C27_IntsFitWord ==
    /\ \A i \in 1..Len(constants) : Fits(constants[i].val)
    /\ \A i \in 1..Len(config) : Fits(config[i].val)
    /\ \A i \in 1..Len(frames) : \A j \in 1..Len(frames[i].vals) : Fits(frames[i].vals[j])

\* what is left to read: the characters after pos, and the current token
\* unless it is EOF
Remaining == (Len(text) - pos) + (IF current_token.type = "EOF" THEN 0 ELSE 1)

\* steps a function can take from pc before it next consumes a token
ControlRank ==
    IF pc = "ret" THEN 3
    ELSE IF pc \in {"config", "value"} THEN 2
    ELSE IF pc \in {"define", "array"} THEN 1
    ELSE 0

Measure == 4 * Remaining + ControlRank

Parsing == pc \notin Final \cup {"done", "io_exit"}

\* C28: on every input the parse ends, with a Config when the current token
\* is EOF and no call is open, or with an error; a token read by the
\* tokenizer ends after where it started, and every step of the parser
\* consumes a token, ends the parse, or comes nearer to the step that does,
\* so each pass of the top-level loop, the array loop and the two evaluator
\* loops consumes at least one token or raises.
C28_Terminates ==
    /\ <>(pc \in Final)
    /\ [](pc = "returned" =>
            current_token.type = "EOF" /\ frames = <<>> /\ err = NoErr /\ result = config)
    /\ [](pc \in {"exit", "raised"} => err # NoErr)
    /\ [](Parsing =>
            LET n == get_next_token(pos)
            IN (n.err = NoErr /\ n.type # "EOF") => n.pos > pos)
    /\ [][Parsing =>
            /\ pc' \in Final \/ Measure' < Measure
            /\ (pc' = pc /\ pc \in {"body", "expr"}) => Remaining' < Remaining
            /\ (pc = "ret" /\ pc' = "value") => Remaining' < Remaining]_vars

\* the run on the text of all constructs has returned its Config at EOF
C28_Witness ==
    /\ text = BaseText
    /\ pc = "returned"
    /\ current_token.type = "EOF"
    /\ pos = Len(text)

\* a top-level pair, a define is being processed; an evaluator is running
InPair == frames # <<>> /\ frames[1].fn = "key"

InDefine == frames # <<>> /\ frames[1].fn = "define"

InEvaluator == pc \in {"expr_enter", "expr", "body"}

\* what one step may change of the two tables
TablesFramed ==
    /\ constants' # constants =>
          /\ pc = "ret" /\ Top.fn = "define"
          /\ constants' = DictSet(constants, Top.name, retval)
          /\ config' = config
    /\ config' # config =>
          /\ pc = "ret" /\ Top.fn = "key"
          /\ config' = DictSet(config, Top.name, retval)
          /\ constants' = constants
    /\ InPair => constants' = constants
    /\ InDefine => config' = config
    /\ InEvaluator => (constants' = constants /\ config' = config)

\* C29: keys and constants are separate namespaces. The constants change only
\* when a define stores its value, and that step leaves the Config as it is;
\* the Config changes only when a top-level pair stores its value, and that
\* step leaves the constants as they are; no step taken while a pair is
\* processed changes the constants, none taken while a define is processed
\* changes the Config, and a step of either evaluator changes neither. After
\* `(define a 1`, `a 5`, `b a` the Config has a = 5 and b = 1 and the constant
\* a is 1.
C29_SeparateNamespaces ==
    /\ [][TablesFramed]_vars
    /\ []((text = C29Text /\ pc \in Final) =>
            /\ Returned(<<Pair(<<"a">>, Int_(5)), Pair(<<"b">>, Int_(1))>>)
            /\ constants = <<Pair(<<"a">>, Int_(1))>>)
    /\ []((text = C29TextRegions /\ pc \in Final) =>
            /\ Returned(<<Pair(<<"a">>, Int_(5)), Pair(<<"b">>, Int_(1)),
                          Pair(<<"d">>, Arr_(<<Int_(1)>>))>>)
            /\ constants = <<Pair(<<"a">>, Int_(1)), Pair(<<"c">>, Int_(2))>>)

\* the run on the example has returned: the key a is 5, the constant a is 1
C29_Witness ==
    /\ text = C29Text
    /\ pc = "returned"
    /\ DictGet(config, <<"a">>) = Int_(5)
    /\ DictGet(config, <<"b">>) = Int_(1)
    /\ DictGet(constants, <<"a">>) = Int_(1)

\* C30: the two evaluators agree. On a text that evaluates one region both as
\* the value of the define c and as the direct value of the key k, either the
\* region that comes first fails (no constant c, no key k), or both are
\* evaluated and k and c have the same value.
C30_EvaluatorsAgree ==
    (text \in AgreeInputs /\ pc \in Final) =>
        \/ /\ pc = "returned"
           /\ HasKey(constants, <<"c">>)
           /\ HasKey(config, <<"k">>)
           /\ DictGet(config, <<"k">>) = DictGet(constants, <<"c">>)
        \/ /\ pc = "exit"
           /\ ~HasKey(constants, <<"c">>)
           /\ config = <<>>

====
